---- MODULE Spec2Model ----
(***************************************************************************)
(* Model of the pull-up repetition counter of AI_Pull_Up_Coach             *)
(* (backend/models/pull_up_counter.py) together with the keypoint          *)
(* extraction helpers it calls (backend/utils/keypoint_utils.py).          *)
(*                                                                         *)
(* Units.  Pixels are integers.  Confidences are in tenths (0.3 is 3).     *)
(* Clock readings are whole seconds.  The two consecutive-frame counters   *)
(* are kept in half frames, so that the decay of 0.5 is the integer 1 and  *)
(* one frame is the integer 2.                                             *)
(***************************************************************************)
EXTENDS Integers, Sequences, FiniteSets, TLC

\* ------------------------------------------------------------------------
\* Program constants
\* ------------------------------------------------------------------------
POSITION_HISTORY_SIZE == 30
DIRECTION_HISTORY_SIZE == 10
LOOKBACK_FRAMES == 5
\* 0.5 frame, in half frames
STABLE_DECAY_RATE == 1
\* the "+= 1" of a consecutive-frame counter, in half frames
ONE_FRAME == 2
\* number of keypoints of a COCO pose
NUM_KEYPOINTS == 17
\* a keypoint row is [x, y, confidence]
KEYPOINT_WIDTH == 3

DIRECTION_UP == "up"
DIRECTION_DOWN == "down"
DIRECTION_STABLE == "stable"
DIRECTION_STARTING == "starting"

STATUS_PULLING_UP == "pulling_up"
STATUS_LOWERING_DOWN == "lowering_down"
STATUS_STABLE == "stable"
STATUS_NEUTRAL == "neutral"
STATUS_NO_PERSON == "no_person"
STATUS_INVALID_KEYPOINTS == "invalid_keypoints"
STATUS_LOW_CONFIDENCE == "low_confidence"
STATUS_ERROR == "error"

\* config.pull_up_config defaults (0.3 in tenths; 2.0 seconds)
min_confidence == 3
rep_cooldown == 2
min_consecutive_frames == 3
movement_threshold == 8
min_movement_range == 30

\* ------------------------------------------------------------------------
\* Bounds of the exploration
\* ------------------------------------------------------------------------
\* usable frames fed when the signal is chosen freely
MaxFrames == 7
\* usable frames fed while the extractor is probed
MaxProbe == 1
\* last clock reading of a scripted run
MaxTime == 6
\* last clock reading otherwise
MaxFreeTime == 3
\* last clock reading of the long run (48 frames of a 30 frames per second
\* camera)
MaxLongTime == 1
\* frames analyzed by a squat counter, and its last clock reading
MaxSquatFrames == 4
MaxSquatTime == 4
\* analyze_frame requests and reset_session requests served by the server
MaxRequests == 3
MaxResets == 2
\* last clock reading of a server run
MaxServerTime == 1

\* ------------------------------------------------------------------------
\* Small helpers
\* ------------------------------------------------------------------------
Abs(x) == IF x < 0 THEN -x ELSE x

Max(a, b) == IF a >= b THEN a ELSE b

Min(a, b) == IF a <= b THEN a ELSE b

\* a deque that refuses the new element when full
DequeAppendDropNewest(q, x, n) == IF Len(q) >= n THEN q ELSE Append(q, x)

\* deque(maxlen = n).append(x): the oldest element is dropped when full
DequeAppend(q, x, n) == IF Len(q) >= n THEN Append(Tail(q), x) ELSE Append(q, x)

\* list(q)[-n:]
LastN(q, n) == SubSeq(q, Max(1, Len(q) - n + 1), Len(q))

\* ------------------------------------------------------------------------
\* Keypoint frames
\* ------------------------------------------------------------------------
\* A frame is what the caller hands to analyze_pose: None (present = FALSE)
\* or an array of n rows of `width' numbers.  Only the four rows the
\* pull-up counter reads are kept: y coordinate and confidence of both
\* shoulders and both wrists.  numeric = FALSE stands for rows whose
\* coordinates are not numbers (arithmetic on them raises TypeError).
Joint(y, c) == [y |-> y, c |-> c]

Frame(present, n, width, numeric, ls, rs, lw, rw) ==
    [present |-> present, n |-> n, width |-> width, numeric |-> numeric,
     left_shoulder |-> ls, right_shoulder |-> rs,
     left_wrist |-> lw, right_wrist |-> rw]

NoJoint == Joint(0, 0)

FrameNone == Frame(FALSE, 0, 0, TRUE, NoJoint, NoJoint, NoJoint, NoJoint)

FrameOfLen(n) == Frame(TRUE, n, KEYPOINT_WIDTH, TRUE, NoJoint, NoJoint, NoJoint, NoJoint)

\* a full frame whose shoulders are at height 200 and whose wrists are sig
\* pixels from them
FullFrame(sig, cls, crs, clw, crw) ==
    Frame(TRUE, NUM_KEYPOINTS, KEYPOINT_WIDTH, TRUE,
          Joint(200, cls), Joint(200, crs),
          Joint(200 + sig, clw), Joint(200 + sig, crw))

\* A frame as the squat counter reads it: y coordinate and confidence of
\* both hips and both knees.
SquatFrame(present, n, width, lh, rh, lk, rk) ==
    [present |-> present, n |-> n, width |-> width,
     left_hip |-> lh, right_hip |-> rh, left_knee |-> lk, right_knee |-> rk]

SquatFrameNone == SquatFrame(FALSE, 0, 0, NoJoint, NoJoint, NoJoint, NoJoint)

SquatFrameOfLen(n) ==
    SquatFrame(TRUE, n, KEYPOINT_WIDTH, NoJoint, NoJoint, NoJoint, NoJoint)

\* a full frame whose hips are at height 300 and whose left and right knee
\* are lk and rk pixels below them
FullSquatFrame(lk, rk, clh, crh, clk, crk) ==
    SquatFrame(TRUE, NUM_KEYPOINTS, KEYPOINT_WIDTH,
               Joint(300, clh), Joint(300, crh),
               Joint(300 + lk, clk), Joint(300 + rk, crk))

\* ------------------------------------------------------------------------
\* utils/keypoint_utils.py
\* ------------------------------------------------------------------------
\* extract_shoulder_wrist_keypoints taking the minimum over three joints
\* only (the right wrist is forgotten)
ExtractThreeJoints(keypoints) ==
    IF ~keypoints.present \/ keypoints.n < NUM_KEYPOINTS
    THEN [min_confidence_is_none |-> TRUE, min_confidence |-> 0]
    ELSE IF keypoints.width < KEYPOINT_WIDTH
    THEN [min_confidence_is_none |-> TRUE, min_confidence |-> 0]
    ELSE [min_confidence_is_none |-> FALSE,
          min_confidence |->
              Min(Min(keypoints.left_shoulder.c, keypoints.right_shoulder.c),
                  keypoints.left_wrist.c)]

\* The result None, None, None, None, None is min_confidence_is_none = TRUE.
\* Indexing column 2 of a row that has fewer than 3 columns raises
\* IndexError, which the function catches and turns into the None result.
extract_shoulder_wrist_keypoints(keypoints) ==
    IF ~keypoints.present \/ keypoints.n < NUM_KEYPOINTS
    THEN [min_confidence_is_none |-> TRUE, min_confidence |-> 0]
    ELSE IF keypoints.width < KEYPOINT_WIDTH
    THEN [min_confidence_is_none |-> TRUE, min_confidence |-> 0]
    ELSE [min_confidence_is_none |-> FALSE,
          min_confidence |->
              Min(Min(keypoints.left_shoulder.c, keypoints.right_shoulder.c),
                  Min(keypoints.left_wrist.c, keypoints.right_wrist.c))]

\* arm = "both", direction = "vertical": average wrist y minus average
\* shoulder y.  The generated frames have even sums, so the halves are exact.
calculate_wrist_shoulder_diff(left_shoulder, right_shoulder, left_wrist, right_wrist) ==
    LET shoulder == (left_shoulder.y + right_shoulder.y) \div 2
        wrist == (left_wrist.y + right_wrist.y) \div 2
    IN  wrist - shoulder

\* Same result convention as extract_shoulder_wrist_keypoints.
extract_hip_knee_keypoints(keypoints) ==
    IF ~keypoints.present \/ keypoints.n < NUM_KEYPOINTS
    THEN [min_confidence_is_none |-> TRUE, min_confidence |-> 0]
    ELSE IF keypoints.width < KEYPOINT_WIDTH
    THEN [min_confidence_is_none |-> TRUE, min_confidence |-> 0]
    ELSE [min_confidence_is_none |-> FALSE,
          min_confidence |->
              Min(Min(keypoints.left_hip.c, keypoints.right_hip.c),
                  Min(keypoints.left_knee.c, keypoints.right_knee.c))]

\* hip_y = (left_hip[1] + right_hip[1]) / 2,
\* knee_y = (left_knee[1] + left_knee[1]) / 2, answer = abs(hip_y - knee_y).
\* The generated frames have even sums, so the halves are exact.
calculate_hip_knee_diff(left_hip, right_hip, left_knee, right_knee) ==
    LET hip_y == (left_hip.y + right_hip.y) \div 2
        knee_y == (left_knee.y + left_knee.y) \div 2
    IN  Abs(hip_y - knee_y)

\* _validate_keypoints rejecting a minimum confidence equal to the threshold
ValidateRejectsAtThreshold(keypoints) ==
    IF ~keypoints.present \/ keypoints.n = 0
    THEN [raised |-> FALSE, is_valid |-> FALSE, error_status |-> STATUS_NO_PERSON, diff |-> 0]
    ELSE LET e == extract_shoulder_wrist_keypoints(keypoints)
         IN  IF e.min_confidence_is_none
             THEN [raised |-> FALSE, is_valid |-> FALSE,
                   error_status |-> STATUS_INVALID_KEYPOINTS, diff |-> 0]
             ELSE IF e.min_confidence <= min_confidence
             THEN [raised |-> FALSE, is_valid |-> FALSE,
                   error_status |-> STATUS_LOW_CONFIDENCE, diff |-> 0]
             ELSE IF ~keypoints.numeric
             THEN [raised |-> TRUE, is_valid |-> FALSE, error_status |-> STATUS_ERROR, diff |-> 0]
             ELSE [raised |-> FALSE, is_valid |-> TRUE, error_status |-> "none",
                   diff |-> calculate_wrist_shoulder_diff(
                                keypoints.left_shoulder, keypoints.right_shoulder,
                                keypoints.left_wrist, keypoints.right_wrist)]

\* ------------------------------------------------------------------------
\* models/pull_up_counter.py : pure parts
\* ------------------------------------------------------------------------
\* _validate_keypoints without the confidence gate
ValidateNoConfidenceGate(keypoints) ==
    IF ~keypoints.present \/ keypoints.n = 0
    THEN [raised |-> FALSE, is_valid |-> FALSE, error_status |-> STATUS_NO_PERSON, diff |-> 0]
    ELSE LET e == extract_shoulder_wrist_keypoints(keypoints)
         IN  IF e.min_confidence_is_none
             THEN [raised |-> FALSE, is_valid |-> FALSE,
                   error_status |-> STATUS_INVALID_KEYPOINTS, diff |-> 0]
             ELSE IF ~keypoints.numeric
             THEN [raised |-> TRUE, is_valid |-> FALSE, error_status |-> STATUS_ERROR, diff |-> 0]
             ELSE [raised |-> FALSE, is_valid |-> TRUE, error_status |-> "none",
                   diff |-> calculate_wrist_shoulder_diff(
                                keypoints.left_shoulder, keypoints.right_shoulder,
                                keypoints.left_wrist, keypoints.right_wrist)]

\* Result of _validate_keypoints.  raised = TRUE stands for an exception
\* leaving the method (arithmetic on coordinates that are not numbers).
_validate_keypoints(keypoints) ==
    IF ~keypoints.present \/ keypoints.n = 0
    THEN [raised |-> FALSE, is_valid |-> FALSE, error_status |-> STATUS_NO_PERSON, diff |-> 0]
    ELSE LET e == extract_shoulder_wrist_keypoints(keypoints)
         IN  IF e.min_confidence_is_none
             THEN [raised |-> FALSE, is_valid |-> FALSE,
                   error_status |-> STATUS_INVALID_KEYPOINTS, diff |-> 0]
             ELSE IF e.min_confidence < min_confidence
             THEN [raised |-> FALSE, is_valid |-> FALSE,
                   error_status |-> STATUS_LOW_CONFIDENCE, diff |-> 0]
             ELSE IF ~keypoints.numeric
             THEN [raised |-> TRUE, is_valid |-> FALSE, error_status |-> STATUS_ERROR, diff |-> 0]
             ELSE [raised |-> FALSE, is_valid |-> TRUE, error_status |-> "none",
                   diff |-> calculate_wrist_shoulder_diff(
                                keypoints.left_shoulder, keypoints.right_shoulder,
                                keypoints.left_wrist, keypoints.right_wrist)]

\* _calculate_movement_from_history answering one frame too early
MovementOneFrameEarly(self) ==
    IF Len(self.position_history) < LOOKBACK_FRAMES - 1
    THEN [is_none |-> TRUE, movement |-> 0]
    ELSE LET recent_positions == LastN(self.position_history, LOOKBACK_FRAMES)
         IN  [is_none |-> FALSE,
              movement |-> recent_positions[Len(recent_positions)] - recent_positions[1]]

\* None is is_none = TRUE
_calculate_movement_from_history(self) ==
    IF Len(self.position_history) < LOOKBACK_FRAMES
    THEN [is_none |-> TRUE, movement |-> 0]
    ELSE LET recent_positions == LastN(self.position_history, LOOKBACK_FRAMES)
         IN  [is_none |-> FALSE,
              movement |-> recent_positions[Len(recent_positions)] - recent_positions[1]]

\* _classify_movement_direction taking the lower edge of the band as DOWN
ClassifyLowerEdgeDown(movement) ==
    IF movement > movement_threshold THEN DIRECTION_UP
    ELSE IF movement <= -movement_threshold THEN DIRECTION_DOWN
    ELSE DIRECTION_STABLE

\* _classify_movement_direction with the edges of the band outside it
ClassifyInclusive(movement) ==
    IF movement >= movement_threshold THEN DIRECTION_UP
    ELSE IF movement <= -movement_threshold THEN DIRECTION_DOWN
    ELSE DIRECTION_STABLE

_classify_movement_direction(movement) ==
    IF movement > movement_threshold THEN DIRECTION_UP
    ELSE IF movement < -movement_threshold THEN DIRECTION_DOWN
    ELSE DIRECTION_STABLE

\* _update_consecutive_frame_counters taking a whole frame off on a STABLE
\* frame
UpdateCountersDecayWholeFrame(self, detected_direction) ==
    IF detected_direction = DIRECTION_UP
    THEN [self EXCEPT !.consecutive_up_frames = @ + ONE_FRAME,
                      !.consecutive_down_frames = 0]
    ELSE IF detected_direction = DIRECTION_DOWN
    THEN [self EXCEPT !.consecutive_down_frames = @ + ONE_FRAME,
                      !.consecutive_up_frames = 0]
    ELSE [self EXCEPT
            !.consecutive_up_frames =
                IF @ > 0 THEN Max(0, @ - ONE_FRAME) ELSE @,
            !.consecutive_down_frames =
                IF @ > 0 THEN Max(0, @ - ONE_FRAME) ELSE @]

\* _update_consecutive_frame_counters letting the opposite counter decay
\* instead of zeroing it
UpdateCountersDecayOpposite(self, detected_direction) ==
    IF detected_direction = DIRECTION_UP
    THEN [self EXCEPT !.consecutive_up_frames = @ + ONE_FRAME,
                      !.consecutive_down_frames =
                          IF @ > 0 THEN Max(0, @ - STABLE_DECAY_RATE) ELSE @]
    ELSE IF detected_direction = DIRECTION_DOWN
    THEN [self EXCEPT !.consecutive_down_frames = @ + ONE_FRAME,
                      !.consecutive_up_frames =
                          IF @ > 0 THEN Max(0, @ - STABLE_DECAY_RATE) ELSE @]
    ELSE [self EXCEPT
            !.consecutive_up_frames =
                IF @ > 0 THEN Max(0, @ - STABLE_DECAY_RATE) ELSE @,
            !.consecutive_down_frames =
                IF @ > 0 THEN Max(0, @ - STABLE_DECAY_RATE) ELSE @]

\* _update_consecutive_frame_counters zeroing the counters on a STABLE frame
UpdateCountersResetOnStable(self, detected_direction) ==
    IF detected_direction = DIRECTION_UP
    THEN [self EXCEPT !.consecutive_up_frames = @ + ONE_FRAME,
                      !.consecutive_down_frames = 0]
    ELSE IF detected_direction = DIRECTION_DOWN
    THEN [self EXCEPT !.consecutive_down_frames = @ + ONE_FRAME,
                      !.consecutive_up_frames = 0]
    ELSE [self EXCEPT !.consecutive_up_frames = 0,
                      !.consecutive_down_frames = 0]

_update_consecutive_frame_counters(self, detected_direction) ==
    IF detected_direction = DIRECTION_UP
    THEN [self EXCEPT !.consecutive_up_frames = @ + ONE_FRAME,
                      !.consecutive_down_frames = 0]
    ELSE IF detected_direction = DIRECTION_DOWN
    THEN [self EXCEPT !.consecutive_down_frames = @ + ONE_FRAME,
                      !.consecutive_up_frames = 0]
    ELSE [self EXCEPT
            !.consecutive_up_frames =
                IF @ > 0 THEN Max(0, @ - STABLE_DECAY_RATE) ELSE @,
            !.consecutive_down_frames =
                IF @ > 0 THEN Max(0, @ - STABLE_DECAY_RATE) ELSE @]

\* _get_confirmed_direction falling back to STABLE whenever neither counter
\* confirms a direction
GetConfirmedNoRetention(self) ==
    IF self.consecutive_up_frames >= min_consecutive_frames * ONE_FRAME
    THEN DIRECTION_UP
    ELSE IF self.consecutive_down_frames >= min_consecutive_frames * ONE_FRAME
    THEN DIRECTION_DOWN
    ELSE DIRECTION_STABLE

\* _get_confirmed_direction confirming one frame late
GetConfirmedLate(self) ==
    IF self.consecutive_up_frames > min_consecutive_frames * ONE_FRAME
    THEN DIRECTION_UP
    ELSE IF self.consecutive_down_frames > min_consecutive_frames * ONE_FRAME
    THEN DIRECTION_DOWN
    ELSE IF self.consecutive_up_frames = 0 /\ self.consecutive_down_frames = 0
    THEN DIRECTION_STABLE
    ELSE self.current_direction

_get_confirmed_direction(self) ==
    IF self.consecutive_up_frames >= min_consecutive_frames * ONE_FRAME
    THEN DIRECTION_UP
    ELSE IF self.consecutive_down_frames >= min_consecutive_frames * ONE_FRAME
    THEN DIRECTION_DOWN
    ELSE IF self.consecutive_up_frames = 0 /\ self.consecutive_down_frames = 0
    THEN DIRECTION_STABLE
    ELSE self.current_direction

\* _record_direction_change recording the sample at the start of the
\* lookback window instead of the frame's own
RecordWindowStart(self, new_direction, current_diff, time_read) ==
    [self EXCEPT
        !.direction_history =
            DequeAppend(@, [direction |-> new_direction, timestamp |-> time_read,
                            position |-> LastN(self.position_history,
                                               LOOKBACK_FRAMES)[1]],
                        DIRECTION_HISTORY_SIZE),
        !.current_direction = new_direction]

\* _record_direction_change that appends the entry and leaves the current
\* direction as it was
RecordKeepsCurrentDirection(self, new_direction, current_diff, time_read) ==
    [self EXCEPT
        !.direction_history =
            DequeAppend(@, [direction |-> new_direction, timestamp |-> time_read,
                            position |-> current_diff], DIRECTION_HISTORY_SIZE)]

\* time_read is the value time.time() returns inside the method
_record_direction_change(self, new_direction, current_diff, time_read) ==
    [self EXCEPT
        !.direction_history =
            DequeAppend(@, [direction |-> new_direction, timestamp |-> time_read,
                            position |-> current_diff], DIRECTION_HISTORY_SIZE),
        !.current_direction = new_direction]

\* detect_direction_change with no warm-up: before the window is full the
\* movement is taken from the oldest sample held
DetectWithoutWarmUp(self, current_diff, time_read) ==
    LET s1 == [self EXCEPT !.position_history =
                   DequeAppend(@, current_diff, POSITION_HISTORY_SIZE)]
        m == _calculate_movement_from_history(s1)
        movement == IF m.is_none
                    THEN current_diff - s1.position_history[1]
                    ELSE m.movement
        detected_direction == _classify_movement_direction(movement)
        s2 == _update_consecutive_frame_counters(s1, detected_direction)
        confirmed_direction == _get_confirmed_direction(s2)
        s3 == IF confirmed_direction # s2.current_direction
              THEN _record_direction_change(s2, confirmed_direction,
                                            current_diff, time_read)
              ELSE s2
    IN  [self |-> s3,
         direction |-> IF m.is_none THEN DIRECTION_STARTING ELSE confirmed_direction]

\* detect_direction_change recording the confirmed direction on every frame,
\* changed or not
DetectRecordsEveryFrame(self, current_diff, time_read) ==
    LET s1 == [self EXCEPT !.position_history =
                   DequeAppend(@, current_diff, POSITION_HISTORY_SIZE)]
        m == _calculate_movement_from_history(s1)
    IN  IF m.is_none
        THEN [self |-> s1, direction |-> DIRECTION_STARTING]
        ELSE LET detected_direction == _classify_movement_direction(m.movement)
                 s2 == _update_consecutive_frame_counters(s1, detected_direction)
                 confirmed_direction == _get_confirmed_direction(s2)
                 s3 == _record_direction_change(s2, confirmed_direction,
                                                current_diff, time_read)
             IN  [self |-> s3, direction |-> confirmed_direction]

\* Returns the counter after the call and the returned direction.
detect_direction_change(self, current_diff, time_read) ==
    LET s1 == [self EXCEPT !.position_history =
                   DequeAppend(@, current_diff, POSITION_HISTORY_SIZE)]
        m == _calculate_movement_from_history(s1)
    IN  IF m.is_none
        THEN [self |-> s1, direction |-> DIRECTION_STARTING]
        ELSE LET detected_direction == _classify_movement_direction(m.movement)
                 s2 == _update_consecutive_frame_counters(s1, detected_direction)
                 confirmed_direction == _get_confirmed_direction(s2)
                 s3 == IF confirmed_direction # s2.current_direction
                       THEN _record_direction_change(s2, confirmed_direction,
                                                     current_diff, time_read)
                       ELSE s2
             IN  [self |-> s3, direction |-> confirmed_direction]

\* _count_rep that also restarts the direction tracking
CountRepRestartsDirection(self, time_read) ==
    [self EXCEPT !.count = @ + 1,
                 !.last_rep_time = time_read,
                 !.direction_history = <<>>,
                 !.current_direction = DIRECTION_STABLE,
                 !.consecutive_up_frames = 0,
                 !.consecutive_down_frames = 0]

\* _count_rep stepping the count the wrong way
CountRepDecrement(self, time_read) ==
    [self EXCEPT !.count = @ - 1,
                 !.last_rep_time = time_read,
                 !.direction_history = <<>>]

\* _count_rep that leaves Direction History as it is
CountRepKeepHistory(self, time_read) ==
    [self EXCEPT !.count = @ + 1,
                 !.last_rep_time = time_read]

_count_rep(self, time_read) ==
    [self EXCEPT !.count = @ + 1,
                 !.last_rep_time = time_read,
                 !.direction_history = <<>>]

\* The pattern test of the rep check, on the two entries it examines.
RepPattern(prev_direction, curr_direction) ==
    prev_direction = DIRECTION_UP /\ curr_direction = DIRECTION_DOWN

\* the cooldown test letting the boundary value through
CooldownActiveStrict(current_time, last_rep) ==
    current_time - last_rep < rep_cooldown

\* The cooldown test of the rep check.
CooldownActive(current_time, last_rep) ==
    current_time - last_rep <= rep_cooldown

\* the range test letting the boundary value through
RangeTooSmallStrict(movement_range) ==
    movement_range < min_movement_range

\* The range test of the rep check.
RangeTooSmall(movement_range) ==
    movement_range <= min_movement_range

\* _check_for_rep_completion restarting the cooldown when it rejects a
\* pattern for its range
CheckRestartsCooldownOnRejection(self, current_time, count_time) ==
    IF CooldownActive(current_time, self.last_rep_time)
    THEN [self |-> self, outcome |-> "cooldown", recent_changes |-> <<>>]
    ELSE IF Len(self.direction_history) < 2
    THEN [self |-> self, outcome |-> "too_few", recent_changes |-> <<>>]
    ELSE LET recent_changes == LastN(self.direction_history, 2)
             prev_direction == recent_changes[1].direction
             curr_direction == recent_changes[2].direction
             down_position == recent_changes[1].position
             up_position == recent_changes[2].position
             movement_range == Abs(up_position - down_position)
         IN  IF ~RepPattern(prev_direction, curr_direction)
             THEN [self |-> self, outcome |-> "no_pattern",
                   recent_changes |-> recent_changes]
             ELSE IF RangeTooSmall(movement_range)
             THEN [self |-> [self EXCEPT !.last_rep_time = current_time],
                   outcome |-> "small_range",
                   recent_changes |-> recent_changes]
             ELSE [self |-> _count_rep(self, count_time), outcome |-> "counted",
                   recent_changes |-> recent_changes]

\* a repetition check that, like the squat one, looks through a STABLE
\* entry between the two directions
CheckLooksThroughStable(self, current_time, count_time) ==
    IF CooldownActive(current_time, self.last_rep_time)
    THEN [self |-> self, outcome |-> "cooldown", recent_changes |-> <<>>]
    ELSE IF Len(self.direction_history) < 2
    THEN [self |-> self, outcome |-> "too_few", recent_changes |-> <<>>]
    ELSE LET last3 == LastN(self.direction_history, 3)
             recent_changes ==
                 IF Len(last3) = 3 /\ last3[2].direction = DIRECTION_STABLE
                 THEN <<last3[1], last3[3]>>
                 ELSE LastN(self.direction_history, 2)
             prev_direction == recent_changes[1].direction
             curr_direction == recent_changes[2].direction
             down_position == recent_changes[1].position
             up_position == recent_changes[2].position
             movement_range == Abs(up_position - down_position)
         IN  IF ~RepPattern(prev_direction, curr_direction)
             THEN [self |-> self, outcome |-> "no_pattern",
                   recent_changes |-> recent_changes]
             ELSE IF RangeTooSmall(movement_range)
             THEN [self |-> self, outcome |-> "small_range",
                   recent_changes |-> recent_changes]
             ELSE [self |-> _count_rep(self, count_time), outcome |-> "counted",
                   recent_changes |-> recent_changes]

\* a repetition check that looks at the pattern only on the frame that
\* recorded its last entry
CheckOnlyOnDirectionChange(self, current_time, count_time) ==
    IF CooldownActive(current_time, self.last_rep_time)
    THEN [self |-> self, outcome |-> "cooldown", recent_changes |-> <<>>]
    ELSE IF Len(self.direction_history) < 2
    THEN [self |-> self, outcome |-> "too_few", recent_changes |-> <<>>]
    ELSE LET recent_changes == LastN(self.direction_history, 2)
             prev_direction == recent_changes[1].direction
             curr_direction == recent_changes[2].direction
             down_position == recent_changes[1].position
             up_position == recent_changes[2].position
             movement_range == Abs(up_position - down_position)
         IN  IF \/ ~RepPattern(prev_direction, curr_direction)
                \/ recent_changes[2].timestamp # current_time
                \/ recent_changes[2].position
                       # self.position_history[Len(self.position_history)]
             THEN [self |-> self, outcome |-> "no_pattern",
                   recent_changes |-> recent_changes]
             ELSE IF RangeTooSmall(movement_range)
             THEN [self |-> self, outcome |-> "small_range",
                   recent_changes |-> recent_changes]
             ELSE [self |-> _count_rep(self, count_time), outcome |-> "counted",
                   recent_changes |-> recent_changes]

\* Returns the counter after the call, the outcome (which return statement
\* was taken) and the entries examined.  current_time is the clock reading
\* of the check, count_time the later reading taken by _count_rep.
_check_for_rep_completion(self, current_time, count_time) ==
    IF CooldownActive(current_time, self.last_rep_time)
    THEN [self |-> self, outcome |-> "cooldown", recent_changes |-> <<>>]
    ELSE IF Len(self.direction_history) < 2
    THEN [self |-> self, outcome |-> "too_few", recent_changes |-> <<>>]
    ELSE LET recent_changes == LastN(self.direction_history, 2)
             prev_direction == recent_changes[1].direction
             curr_direction == recent_changes[2].direction
             down_position == recent_changes[1].position
             up_position == recent_changes[2].position
             movement_range == Abs(up_position - down_position)
         IN  IF ~RepPattern(prev_direction, curr_direction)
             THEN [self |-> self, outcome |-> "no_pattern",
                   recent_changes |-> recent_changes]
             ELSE IF RangeTooSmall(movement_range)
             THEN [self |-> self, outcome |-> "small_range",
                   recent_changes |-> recent_changes]
             ELSE [self |-> _count_rep(self, count_time), outcome |-> "counted",
                   recent_changes |-> recent_changes]

\* _update_display_status with the two motion labels exchanged
DisplayStatusSwapped(self, direction) ==
    IF direction = DIRECTION_UP THEN [self EXCEPT !.status = STATUS_LOWERING_DOWN]
    ELSE IF direction = DIRECTION_DOWN THEN [self EXCEPT !.status = STATUS_PULLING_UP]
    ELSE [self EXCEPT !.status = STATUS_STABLE]

_update_display_status(self, direction) ==
    IF direction = DIRECTION_UP THEN [self EXCEPT !.status = STATUS_PULLING_UP]
    ELSE IF direction = DIRECTION_DOWN THEN [self EXCEPT !.status = STATUS_LOWERING_DOWN]
    ELSE [self EXCEPT !.status = STATUS_STABLE]

\* an except clause that stores the status it returns
ExceptStoresError(self) ==
    [self |-> [self EXCEPT !.status = STATUS_ERROR],
     ret |-> [count |-> self.count, status |-> STATUS_ERROR]]

\* an except clause that starts the counter afresh
ExceptStartsAfresh(self) ==
    [self |-> [self EXCEPT !.count = 0, !.position_history = <<>>,
                           !.direction_history = <<>>],
     ret |-> [count |-> 0, status |-> STATUS_ERROR]]

\* The except clause of analyze_pose: the counter is left as the try block
\* left it and the call returns (count, "error").
analyze_pose_except(self) ==
    [self |-> self, ret |-> [count |-> self.count, status |-> STATUS_ERROR]]

\* reset using the frame counter to count the resets
ResetBumpsFrameCount(self) ==
    [self EXCEPT !.count = 0,
                 !.status = STATUS_NEUTRAL,
                 !.position_history = <<>>,
                 !.direction_history = <<>>,
                 !.last_rep_time = 0,
                 !.current_direction = DIRECTION_STABLE,
                 !.consecutive_up_frames = 0,
                 !.consecutive_down_frames = 0,
                 !.frame_count = @ + 1]

\* reset leaving the cooldown timer as it is
ResetKeepsLastRepTime(self) ==
    [self EXCEPT !.count = 0,
                 !.status = STATUS_NEUTRAL,
                 !.position_history = <<>>,
                 !.direction_history = <<>>,
                 !.current_direction = DIRECTION_STABLE,
                 !.consecutive_up_frames = 0,
                 !.consecutive_down_frames = 0,
                 !.frame_count = 0]

\* The assignments of PullUpCounter.reset; SquatCounter.reset makes the same
\* ones.
PullUpCounter_reset(self) ==
    [self EXCEPT !.count = 0,
                 !.status = STATUS_NEUTRAL,
                 !.position_history = <<>>,
                 !.direction_history = <<>>,
                 !.last_rep_time = 0,
                 !.current_direction = DIRECTION_STABLE,
                 !.consecutive_up_frames = 0,
                 !.consecutive_down_frames = 0,
                 !.frame_count = 0]

\* PullUpCounter.__init__
NewCounter ==
    [count |-> 0, status |-> STATUS_NEUTRAL,
     position_history |-> <<>>, direction_history |-> <<>>,
     last_rep_time |-> 0, current_direction |-> DIRECTION_STABLE,
     consecutive_up_frames |-> 0, consecutive_down_frames |-> 0,
     frame_count |-> 0]

\* ------------------------------------------------------------------------
\* models/squat_counter.py : direction record and repetition check
\* ------------------------------------------------------------------------
\* SquatCounter._validate_keypoints; the threshold is
\* squat_config.min_confidence
SquatCounter_validate_keypoints(keypoints) ==
    IF ~keypoints.present \/ keypoints.n = 0
    THEN [is_valid |-> FALSE, error_status |-> STATUS_NO_PERSON, diff |-> 0]
    ELSE LET e == extract_hip_knee_keypoints(keypoints)
         IN  IF e.min_confidence_is_none
             THEN [is_valid |-> FALSE, error_status |-> STATUS_INVALID_KEYPOINTS,
                   diff |-> 0]
             ELSE IF e.min_confidence < min_confidence
             THEN [is_valid |-> FALSE, error_status |-> STATUS_LOW_CONFIDENCE,
                   diff |-> 0]
             ELSE [is_valid |-> TRUE, error_status |-> "none",
                   diff |-> calculate_hip_knee_diff(
                                keypoints.left_hip, keypoints.right_hip,
                                keypoints.left_knee, keypoints.right_knee)]

SquatCounter_record_direction_change(self, new_direction, current_diff, time_read) ==
    [self EXCEPT
        !.direction_history =
            DequeAppend(@, [direction |-> new_direction, timestamp |-> time_read,
                            position |-> current_diff], DIRECTION_HISTORY_SIZE),
        !.current_direction = new_direction]

SquatCounter_count_rep(self, time_read) ==
    [self EXCEPT !.count = @ + 1,
                 !.last_rep_time = time_read,
                 !.direction_history = <<>>]

\* the pattern selection taking the middle entry as it is
SquatPatternNoCollapse(recent_changes) ==
    IF Len(recent_changes) >= 3
    THEN [prev_direction |-> recent_changes[2].direction,
          curr_direction |-> recent_changes[3].direction]
    ELSE [prev_direction |-> recent_changes[1].direction,
          curr_direction |-> recent_changes[2].direction]

\* The two directions the squat check compares, chosen among the entries
\* it examines (two or three).
SquatPattern(recent_changes) ==
    IF Len(recent_changes) >= 3
    THEN LET prev_prev_direction == recent_changes[1].direction
         IN  [prev_direction |->
                  IF recent_changes[2].direction # DIRECTION_STABLE
                  THEN recent_changes[2].direction ELSE prev_prev_direction,
              curr_direction |-> recent_changes[3].direction]
    ELSE [prev_direction |-> recent_changes[1].direction,
          curr_direction |-> recent_changes[2].direction]

\* SquatCounter._check_for_rep_completion; test_script is the attribute of
\* that name.  Same result record as the pull-up check.
SquatCounter_check_for_rep_completion(self, test_script, current_time, count_time) ==
    IF current_time - self.last_rep_time <= rep_cooldown
    THEN [self |-> self, outcome |-> "cooldown", recent_changes |-> <<>>]
    ELSE IF Len(self.direction_history) < 2
    THEN [self |-> self, outcome |-> "too_few", recent_changes |-> <<>>]
    ELSE LET recent_changes == LastN(self.direction_history, 3)
             pattern == SquatPattern(recent_changes)
             down_position == recent_changes[1].position
             up_position == recent_changes[2].position
             movement_range ==
                 IF ~test_script THEN Abs(up_position - down_position)
                 ELSE 6 * Abs(up_position - down_position)
         IN  IF ~(pattern.prev_direction = DIRECTION_UP
                  /\ pattern.curr_direction = DIRECTION_DOWN)
             THEN [self |-> self, outcome |-> "no_pattern",
                   recent_changes |-> recent_changes]
             ELSE IF movement_range <= min_movement_range
             THEN [self |-> self, outcome |-> "small_range",
                   recent_changes |-> recent_changes]
             ELSE [self |-> SquatCounter_count_rep(self, count_time),
                   outcome |-> "counted", recent_changes |-> recent_changes]

\* ------------------------------------------------------------------------
\* State
\* ------------------------------------------------------------------------
VARIABLES
    \* fields of the PullUpCounter object
    count, status, position_history, direction_history, last_rep_time,
    current_direction, consecutive_up_frames, consecutive_down_frames,
    frame_count,
    \* the wall clock read by time.time()
    now,
    \* the camera side: how frames are produced ("free": any signal of
    \* Signals on every frame; "script" and "long": the signal values of
    \* script, in order; "probe": frames of every shape), the script, and
    \* the number of usable frames delivered so far
    mode, script, fed,
    \* the number of usable frames analyzed since construction or the last
    \* reset
    usable_frames,
    \* the last call: which operation, its argument, its return value, the
    \* direction returned by detect_direction_change and the outcome, clock
    \* reading and examined entries of _check_for_rep_completion
    op, keypoints, ret, direction, rep_check,
    \* the operation called before the last one
    prev_op,
    \* the test_script attribute of a squat counter
    test_script,
    \* the server (main.py): the session registry, as the instance number
    \* each registered session id holds; the number of counters constructed
    \* so far; the number of reset_session requests served; and the
    \* analyze_frame requests with their position in the handler
    workout_sessions, instances, resets, requests,
    \* the class of the counter object the counter variables describe
    counter_class

vars == <<count, status, position_history, direction_history, last_rep_time,
          current_direction, consecutive_up_frames, consecutive_down_frames,
          frame_count, now, mode, script, fed, usable_frames, op, keypoints,
          ret, direction, rep_check, prev_op, test_script,
          workout_sessions, instances, resets, requests, counter_class>>

server_vars == <<workout_sessions, instances, resets, requests, counter_class>>

counter_vars == <<count, status, position_history, direction_history, last_rep_time,
                  current_direction, consecutive_up_frames, consecutive_down_frames,
                  frame_count>>

\* the counter object as one record
Self ==
    [count |-> count, status |-> status,
     position_history |-> position_history, direction_history |-> direction_history,
     last_rep_time |-> last_rep_time, current_direction |-> current_direction,
     consecutive_up_frames |-> consecutive_up_frames,
     consecutive_down_frames |-> consecutive_down_frames,
     frame_count |-> frame_count]

SetSelf(s) ==
    /\ count' = s.count
    /\ status' = s.status
    /\ position_history' = s.position_history
    /\ direction_history' = s.direction_history
    /\ last_rep_time' = s.last_rep_time
    /\ current_direction' = s.current_direction
    /\ consecutive_up_frames' = s.consecutive_up_frames
    /\ consecutive_down_frames' = s.consecutive_down_frames
    /\ frame_count' = s.frame_count

NoCheck == [outcome |-> "not_run", current_time |-> 0, recent_changes |-> <<>>]

NoReturn == [count |-> 0, status |-> "none"]

DEFAULT_SESSION_ID == "default"

\* the registry with no session in it
NoSessions == [sid \in {} |-> 0]

\* the registry holding instance number n under the session id sid
WithSession(sid, n) == [x \in {sid} |-> n]

\* a request that has not arrived yet
NoRequest ==
    [pc |-> "idle", exercise |-> "none", http |-> 0, instance |-> 0,
     counter_class |-> "none", seen |-> 0]

\* ------------------------------------------------------------------------
\* Inputs
\* ------------------------------------------------------------------------
\* signal values of a freely moving person: rest, the edge of the
\* hysteresis band, and a position well above
Signals == {0, 8, 40}

\* seconds the clock may advance between two calls
Ticks == {0, 1}

\* seconds the clock may advance between the reading of the rep check and
\* the reading of _count_rep
ReadLag == {0, 1}

\* a confidence below the gate and one well above it
LowConf == min_confidence - 1

HighConf == 3 * min_confidence

\* frames of every shape, for probing the extractor
ProbeConfs == {LowConf, min_confidence, HighConf}

ProbeFrames ==
    {FrameNone}
    \cup {FrameOfLen(n) : n \in 0..(NUM_KEYPOINTS - 1)}
    \cup {FullFrame(0, cls, crs, clw, crw) :
            cls \in ProbeConfs, crs \in ProbeConfs, clw \in ProbeConfs,
            crw \in ProbeConfs}
    \cup {[FullFrame(0, HighConf, HighConf, c, HighConf) EXCEPT !.width = 2] :
            c \in ProbeConfs}
    \cup {[FullFrame(0, HighConf, HighConf, c, HighConf) EXCEPT !.numeric = FALSE] :
            c \in ProbeConfs}

\* one unusable frame of each kind
UnusableFrames ==
    {FrameNone,
     FrameOfLen(NUM_KEYPOINTS - 1),
     FullFrame(0, HighConf, HighConf, LowConf, HighConf),
     [FullFrame(0, HighConf, HighConf, HighConf, HighConf) EXCEPT !.numeric = FALSE]}

\* levels a person holds for HoldFrames frames each: rest, and two heights
\* on either side of the range gate
Levels == {0, 30, 31}

\* a level is held for as long as a change of level stays in the lookback
\* window
HoldFrames == LOOKBACK_FRAMES - 1

RECURSIVE Hold(_)
Hold(levels) ==
    IF levels = <<>> THEN <<>>
    ELSE [i \in 1..HoldFrames |-> Head(levels)] \o Hold(Tail(levels))

RECURSIVE Ramp(_, _, _)
\* n samples after `from', each `step' further
Ramp(from, step, n) ==
    IF n = 0 THEN <<>> ELSE <<from + step>> \o Ramp(from + step, step, n - 1)

\* the end-to-end scenario: the signal descends from 0 to -100 in 10
\* frames and ascends back to 0 in 10 frames
PullUpScenario == <<0>> \o Ramp(0, -10, 10) \o Ramp(-100, 10, 10)

\* the same motion upside down
MirrorScenario == <<0>> \o Ramp(0, 10, 10) \o Ramp(100, -10, 10)

\* two full cycles between rest and the upper level
TwoCycles == Hold(<<0, 31, 0, 31, 0>>)

\* an upward run interrupted by one STABLE frame, after two UP frames and
\* after one
StutterAfterTwo == <<0, 0, 0, 0, 20, 20, 0, 20, 40>>

StutterAfterOne == <<0, 0, 0, 0, 20, 0, 20, 20, 40>>

\* a rise of three frames to the level 60, which is then held until both
\* consecutive-frame counters have decayed to 0
RiseAndHold ==
    <<0, 0, 0, 0, 20, 40, 60>>
    \o [i \in 1..(LOOKBACK_FRAMES - 2 + 2 * 2 * min_consecutive_frames) |-> 60]

\* the rise that is held until the direction is STABLE again, followed by a
\* descent to the starting level
RiseHoldDescend == RiseAndHold \o <<40, 20, 0>>

\* a long shallow oscillation: twelve levels, none of its cycles reaching
\* the range gate, so that both histories fill up
LongRun == Hold(<<0, 20, 0, 20, 0, 20, 0, 20, 0, 20, 0, 20>>)

Scripts ==
    {Hold(<<a, b, c>>) : a \in Levels, b \in Levels, c \in Levels}
    \cup {TwoCycles, PullUpScenario, MirrorScenario}
    \cup {StutterAfterTwo, StutterAfterOne, RiseAndHold}

\* the signals the person can show on the next usable frame
NextSignals ==
    IF mode = "free" THEN (IF fed < MaxFrames THEN Signals ELSE {})
    ELSE IF mode \in {"script", "long"}
    THEN (IF fed < Len(script) THEN {script[fed + 1]} ELSE {})
    ELSE (IF fed < MaxProbe THEN {0} ELSE {})

UsableFrames ==
    {FullFrame(sig, HighConf, HighConf, min_confidence, HighConf) : sig \in NextSignals}

\* the last clock reading of the run
TimeCap ==
    IF mode = "script" THEN MaxTime
    ELSE IF mode = "long" THEN MaxLongTime
    ELSE IF mode = "squat" THEN MaxSquatTime
    ELSE IF mode = "server" THEN MaxServerTime
    ELSE MaxFreeTime

\* the frames the camera side can deliver next
NextFrames ==
    IF mode = "probe"
    THEN {f \in ProbeFrames : _validate_keypoints(f).is_valid => NextSignals # {}}
    ELSE UnusableFrames \cup UsableFrames

\* analyze_pose running the repetition check before the direction update
AnalyzePoseChecksFirst(self, kp, tick, lag) ==
    \E t \in {now + tick}, v \in {_validate_keypoints(kp)} :
        /\ t + lag <= TimeCap
        /\ keypoints' = kp
        /\ UNCHANGED <<mode, script, test_script>>
        /\ IF v.raised
           THEN \E h \in {analyze_pose_except(self)} :
                /\ lag = 0
                /\ SetSelf(h.self)
                /\ ret' = h.ret
                /\ now' = t
                /\ direction' = "none"
                /\ rep_check' = NoCheck
                /\ UNCHANGED <<fed, usable_frames>>
           ELSE IF ~v.is_valid
           THEN /\ lag = 0
                /\ SetSelf(self)
                /\ ret' = [count |-> self.count, status |-> v.error_status]
                /\ now' = t
                /\ direction' = "none"
                /\ rep_check' = NoCheck
                /\ UNCHANGED <<fed, usable_frames>>
           ELSE \E c \in {_check_for_rep_completion(self, t, t + lag)} :
                \E d \in {detect_direction_change(c.self, v.diff, t)} :
                \E s \in {_update_display_status(d.self, d.direction)} :
                    /\ c.outcome # "counted" => lag = 0
                    /\ SetSelf(s)
                    /\ ret' = [count |-> s.count, status |-> s.status]
                    /\ now' = t + lag
                    /\ direction' = d.direction
                    /\ rep_check' = [outcome |-> c.outcome, current_time |-> t,
                                     recent_changes |-> c.recent_changes]
                    /\ fed' = fed + 1
                    /\ usable_frames' = usable_frames + 1

\* ------------------------------------------------------------------------
\* Operations
\* ------------------------------------------------------------------------
\* PullUpCounter.analyze_pose(kp) on the counter self, called tick seconds
\* after the previous call.  The try block either returns early on an
\* unusable frame, runs the three steps on a usable one, or is left by an
\* exception that the except clause turns into (count, "error").  lag is the
\* time between the clock reading of the rep check and that of _count_rep.
PullUpCounter_analyze_pose(self, kp, tick, lag) ==
    \E t \in {now + tick}, v \in {_validate_keypoints(kp)} :
        /\ t + lag <= TimeCap
        /\ keypoints' = kp
        /\ UNCHANGED <<mode, script, test_script>>
        /\ IF v.raised
           THEN \E h \in {analyze_pose_except(self)} :
                /\ lag = 0
                /\ SetSelf(h.self)
                /\ ret' = h.ret
                /\ now' = t
                /\ direction' = "none"
                /\ rep_check' = NoCheck
                /\ UNCHANGED <<fed, usable_frames>>
           ELSE IF ~v.is_valid
           THEN /\ lag = 0
                /\ SetSelf(self)
                /\ ret' = [count |-> self.count, status |-> v.error_status]
                /\ now' = t
                /\ direction' = "none"
                /\ rep_check' = NoCheck
                /\ UNCHANGED <<fed, usable_frames>>
           ELSE \E d \in {detect_direction_change(self, v.diff, t)} :
                \E c \in {_check_for_rep_completion(d.self, t, t + lag)} :
                \E s \in {_update_display_status(c.self, d.direction)} :
                    /\ c.outcome # "counted" => lag = 0
                    /\ SetSelf(s)
                    /\ ret' = [count |-> s.count, status |-> s.status]
                    /\ now' = t + lag
                    /\ direction' = d.direction
                    /\ rep_check' = [outcome |-> c.outcome, current_time |-> t,
                                     recent_changes |-> c.recent_changes]
                    /\ fed' = fed + 1
                    /\ usable_frames' = usable_frames + 1

\* a direct call of analyze_pose on the counter
analyze_pose(kp, tick, lag) ==
    /\ mode \notin {"server", "squat", "squat_probe"}
    /\ op' = "analyze_pose"
    /\ prev_op' = op
    /\ UNCHANGED server_vars
    /\ PullUpCounter_analyze_pose(Self, kp, tick, lag)

\* PullUpCounter.reset()
reset ==
    /\ mode # "server"
    /\ UNCHANGED server_vars
    /\ SetSelf(PullUpCounter_reset(Self))
    /\ op' = "reset"
    /\ prev_op' = op
    /\ keypoints' = FrameNone
    /\ ret' = NoReturn
    /\ direction' = "none"
    /\ rep_check' = NoCheck
    /\ usable_frames' = 0
    /\ UNCHANGED <<now, mode, script, fed, test_script>>

\* a counter just constructed, before any call
InitCounter ==
    /\ count = NewCounter.count
    /\ status = NewCounter.status
    /\ position_history = NewCounter.position_history
    /\ direction_history = NewCounter.direction_history
    /\ last_rep_time = NewCounter.last_rep_time
    /\ current_direction = NewCounter.current_direction
    /\ consecutive_up_frames = NewCounter.consecutive_up_frames
    /\ consecutive_down_frames = NewCounter.consecutive_down_frames
    /\ frame_count = NewCounter.frame_count
    /\ now = 0
    /\ fed = 0
    /\ usable_frames = 0
    /\ op = "init"
    /\ prev_op = "init"
    /\ workout_sessions = NoSessions
    /\ instances = 0
    /\ resets = 0
    /\ requests = [r \in 1..MaxRequests |-> NoRequest]
    /\ keypoints = FrameNone
    /\ ret = NoReturn
    /\ direction = "none"
    /\ rep_check = NoCheck

\* the class of the counter a run is about; the server has constructed none
\* when it starts
InitClass ==
    counter_class = (IF mode \in {"squat", "squat_probe"} THEN "SquatCounter"
                     ELSE IF mode = "server" THEN "none"
                     ELSE "PullUpCounter")

Next ==
    \/ \E kp \in NextFrames, tick \in Ticks, lag \in ReadLag :
           analyze_pose(kp, tick, lag)
    \/ reset

\* any signal on every frame
Init ==
    /\ InitCounter
    /\ mode = "free"
    /\ script = <<>>
    /\ test_script = FALSE
    /\ InitClass

Spec == Init /\ [][Next]_vars

\* a person performing one of the scripted motions
InitScript ==
    /\ InitCounter
    /\ mode = "script"
    /\ script \in Scripts
    /\ test_script = FALSE
    /\ InitClass

SpecScript == InitScript /\ [][Next]_vars

\* frames of every shape
InitProbe ==
    /\ InitCounter
    /\ mode = "probe"
    /\ script = <<>>
    /\ test_script = FALSE
    /\ InitClass

SpecProbe == InitProbe /\ [][Next]_vars

\* a person who rises, holds the upper level and descends
InitHold ==
    /\ InitCounter
    /\ mode = "script"
    /\ script = RiseHoldDescend
    /\ test_script = FALSE
    /\ InitClass

SpecHold == InitHold /\ [][Next]_vars

\* a person performing the long shallow oscillation
InitLong ==
    /\ InitCounter
    /\ mode = "long"
    /\ script = LongRun
    /\ test_script = FALSE
    /\ InitClass

SpecLong == InitLong /\ [][Next]_vars

\* SquatCounter.analyze_pose(kp) without the classification of the frame:
\* an unusable frame returns early with its reason code; the signal of a
\* usable one is appended, its confirmed direction is recorded if it
\* differs from the current one, and the repetition check runs.  The
\* confirmed direction is an input here: any direction can follow any
\* other.
squat_frame(confirmed_direction, kp, tick, lag) ==
    \E t \in {now + tick}, v \in {SquatCounter_validate_keypoints(kp)} :
        /\ mode \in {"squat", "squat_probe"}
        /\ UNCHANGED server_vars
        /\ t + lag <= TimeCap
        /\ op' = "squat_frame"
        /\ prev_op' = op
        /\ keypoints' = kp
        /\ UNCHANGED <<mode, script, test_script>>
        /\ IF ~v.is_valid
           THEN /\ lag = 0
                /\ confirmed_direction = DIRECTION_STABLE
                /\ SetSelf(Self)
                /\ ret' = [count |-> count, status |-> v.error_status]
                /\ now' = t
                /\ direction' = "none"
                /\ rep_check' = NoCheck
                /\ UNCHANGED <<fed, usable_frames>>
           ELSE \E s1 \in {[Self EXCEPT !.position_history =
                                 DequeAppend(@, v.diff, POSITION_HISTORY_SIZE)]} :
                \E s2 \in {IF confirmed_direction # s1.current_direction
                            THEN SquatCounter_record_direction_change(
                                     s1, confirmed_direction, v.diff, t)
                            ELSE s1} :
                \E c \in {SquatCounter_check_for_rep_completion(
                               s2, test_script, t, t + lag)} :
                \E s \in {_update_display_status(c.self, confirmed_direction)} :
                    /\ fed < (IF mode = "squat" THEN MaxSquatFrames ELSE MaxProbe)
                    /\ c.outcome # "counted" => lag = 0
                    /\ SetSelf(s)
                    /\ ret' = [count |-> s.count, status |-> s.status]
                    /\ now' = t + lag
                    /\ direction' = confirmed_direction
                    /\ rep_check' = [outcome |-> c.outcome, current_time |-> t,
                                     recent_changes |-> c.recent_changes]
                    /\ fed' = fed + 1
                    /\ usable_frames' = usable_frames + 1

\* pixels a knee can be below the hips, and the seconds between two frames
SquatSignals == {0, 40}

SquatTicks == {0, 3}

\* frames of every shape and confidence, for probing the squat extractor
SquatProbeFrames ==
    {SquatFrameNone}
    \cup {SquatFrameOfLen(n) : n \in {0, 1, NUM_KEYPOINTS - 1}}
    \cup {FullSquatFrame(40, 40, clh, crh, clk, crk) :
            clh \in ProbeConfs, crh \in ProbeConfs, clk \in ProbeConfs,
            crk \in ProbeConfs}
    \cup {[FullSquatFrame(40, 40, HighConf, HighConf, HighConf, HighConf)
              EXCEPT !.width = 2]}

\* the frames a squat counter can be handed next: while the repetition
\* check is exercised, usable frames with each knee at either height
SquatFrames ==
    IF mode = "squat"
    THEN {FullSquatFrame(lk, rk, HighConf, HighConf, min_confidence, HighConf) :
             lk \in SquatSignals, rk \in SquatSignals}
    ELSE SquatProbeFrames

NextSquat ==
    \/ \E d \in {DIRECTION_UP, DIRECTION_DOWN, DIRECTION_STABLE},
          kp \in SquatFrames, tick \in SquatTicks, lag \in ReadLag :
           squat_frame(d, kp, tick, lag)
    \/ reset

\* a counter of either variant, handed frames of every shape and confidence
NextGate ==
    \/ \E kp \in NextFrames, tick \in Ticks, lag \in ReadLag :
           analyze_pose(kp, tick, lag)
    \/ \E d \in {DIRECTION_UP, DIRECTION_DOWN, DIRECTION_STABLE},
          kp \in SquatFrames, tick \in Ticks, lag \in ReadLag :
           squat_frame(d, kp, tick, lag)
    \/ reset

InitGate ==
    /\ InitCounter
    /\ mode \in {"probe", "squat_probe"}
    /\ script = <<>>
    /\ test_script = FALSE
    /\ InitClass

SpecGate == InitGate /\ [][NextGate]_vars

\* a squat counter, in production or under the test script
InitSquat ==
    /\ InitCounter
    /\ mode = "squat"
    /\ script = <<>>
    /\ test_script \in BOOLEAN
    /\ InitClass

SpecSquat == InitSquat /\ [][NextSquat]_vars

\* ------------------------------------------------------------------------
\* main.py : the session registry and the two request handlers
\* ------------------------------------------------------------------------
\* Numbers of positional arguments (besides self) each constructor accepts:
\* PullUpCounter.__init__(self) and
\* SquatCounter.__init__(self, config, logger, test_script=False).
PullUpCounter_init_arity == {0}

SquatCounter_init_arity == {2, 3}

\* the exercise names a request may carry: the two whose classes are
\* modelled, and the default value of the parameter
Exercises == {"PullUps", "Squats", "No Selected Exercise"}

\* the class each exercise name selects
ClassOf(exercise) ==
    CASE exercise = "PullUps" -> "PullUpCounter"
      [] exercise = "Squats" -> "SquatCounter"
      [] OTHER -> "none"

\* _get_or_create_session: the lookup by session id alone, and on a miss the
\* constructor call of the requested exercise, PullUpCounter(config, logger)
\* or SquatCounter().  raised = TRUE stands for the TypeError of a call
\* whose number of arguments the constructor does not accept, and for the
\* ValueError of an unknown exercise; the registry is then left as it was.
\* held_class is the class of the counter the registry holds, if any.
_get_or_create_session(sessions, n_instances, held_class, session_id, exercise) ==
    IF session_id \in DOMAIN sessions
    THEN [raised |-> FALSE, workout_sessions |-> sessions, instances |-> n_instances,
          created |-> FALSE, counter_class |-> held_class]
    ELSE IF \/ exercise = "PullUps" /\ 2 \in PullUpCounter_init_arity
            \/ exercise = "Squats" /\ 0 \in SquatCounter_init_arity
    THEN [raised |-> FALSE,
          workout_sessions |-> WithSession(session_id, n_instances + 1),
          instances |-> n_instances + 1, created |-> TRUE,
          counter_class |-> ClassOf(exercise)]
    ELSE [raised |-> TRUE, workout_sessions |-> sessions, instances |-> n_instances,
          created |-> FALSE, counter_class |-> held_class]

\* An analyze_frame request arrives: the handler starts and suspends at
\* `await file.read()'.  Requests arrive in the order of their numbers.
\* seen remembers the instance the registry held at that moment (0: none).
receive(r, exercise) ==
    /\ mode = "server"
    /\ requests[r].pc = "idle"
    /\ \A q \in 1..(r - 1) : requests[q].pc # "idle"
    /\ requests' = [requests EXCEPT ![r] =
                        [@ EXCEPT !.pc = "reading",
                                  !.exercise = exercise,
                                  !.seen = IF DEFAULT_SESSION_ID \in DOMAIN workout_sessions
                                           THEN workout_sessions[DEFAULT_SESSION_ID]
                                           ELSE 0]]
    /\ op' = "receive"
    /\ prev_op' = op
    /\ UNCHANGED <<counter_vars, now, mode, script, fed, usable_frames, keypoints,
                   ret, direction, rep_check, test_script, workout_sessions,
                   instances, resets, counter_class>>

\* an analyze_frame handler that looks the session up before it suspends
\* and, resumed, works on what it found then: nothing (the construction
\* raised), the counter the registry still holds, or a counter that a reset
\* has replaced in the meantime
AnalyzeFrameLookupAtArrival(r, kp, tick, lag) ==
    /\ mode = "server"
    /\ requests[r].pc = "reading"
    /\ op' = "analyze_frame"
    /\ prev_op' = op
    /\ UNCHANGED <<resets, workout_sessions, instances, counter_class>>
    /\ IF requests[r].seen = 0
       THEN /\ kp = FrameNone /\ tick = 0 /\ lag = 0
            /\ requests' = [requests EXCEPT ![r] = [@ EXCEPT !.pc = "done",
                                                             !.http = 500]]
            /\ UNCHANGED <<counter_vars, now, mode, script, fed, usable_frames,
                           keypoints, ret, direction, rep_check, test_script>>
       ELSE IF requests[r].seen # workout_sessions[DEFAULT_SESSION_ID]
       THEN /\ kp = FrameNone /\ tick = 0 /\ lag = 0
            /\ requests' = [requests EXCEPT ![r] =
                                [@ EXCEPT !.pc = "done", !.http = 200,
                                          !.instance = requests[r].seen,
                                          !.counter_class = "PullUpCounter"]]
            /\ UNCHANGED <<counter_vars, now, mode, script, fed, usable_frames,
                           keypoints, ret, direction, rep_check, test_script>>
       ELSE \E counter \in {[Self EXCEPT !.frame_count = @ + 1]} :
            /\ requests' = [requests EXCEPT ![r] =
                                [@ EXCEPT !.pc = "done", !.http = 200,
                                          !.instance = requests[r].seen,
                                          !.counter_class = counter_class]]
            /\ IF kp.present
               THEN PullUpCounter_analyze_pose(counter, kp, tick, lag)
               ELSE /\ lag = 0
                    /\ now + tick <= TimeCap
                    /\ SetSelf(counter)
                    /\ ret' = [count |-> counter.count, status |-> "no_person"]
                    /\ keypoints' = kp
                    /\ now' = now + tick
                    /\ direction' = "none"
                    /\ rep_check' = NoCheck
                    /\ UNCHANGED <<mode, script, fed, usable_frames, test_script>>

\* The rest of the analyze_frame handler, which runs without suspending:
\* session lookup or creation, frame counter, pose detection (kp is what
\* detect_pose returns), analysis, response.  An exception becomes the
\* response 500.  Until a counter exists the counter variables hold the
\* values of a new one.
analyze_frame(r, kp, tick, lag) ==
    /\ mode = "server"
    /\ requests[r].pc = "reading"
    /\ op' = "analyze_frame"
    /\ prev_op' = op
    /\ UNCHANGED resets
    /\ \E g \in {_get_or_create_session(workout_sessions, instances, counter_class,
                                         DEFAULT_SESSION_ID, requests[r].exercise)} :
        IF g.raised
        THEN /\ kp = FrameNone /\ tick = 0 /\ lag = 0
             /\ requests' = [requests EXCEPT ![r] = [@ EXCEPT !.pc = "done",
                                                              !.http = 500]]
             /\ UNCHANGED <<counter_vars, now, mode, script, fed, usable_frames,
                            keypoints, ret, direction, rep_check, test_script,
                            workout_sessions, instances, counter_class>>
        ELSE \E counter \in {[(IF g.created THEN NewCounter ELSE Self)
                                  EXCEPT !.frame_count = @ + 1]} :
             /\ workout_sessions' = g.workout_sessions
             /\ instances' = g.instances
             /\ counter_class' = g.counter_class
             /\ requests' = [requests EXCEPT ![r] =
                                 [@ EXCEPT !.pc = "done", !.http = 200,
                                           !.instance =
                                               g.workout_sessions[DEFAULT_SESSION_ID],
                                           !.counter_class = g.counter_class]]
             /\ IF kp.present
                THEN PullUpCounter_analyze_pose(counter, kp, tick, lag)
                ELSE /\ lag = 0
                     /\ now + tick <= TimeCap
                     /\ SetSelf(counter)
                     /\ ret' = [count |-> counter.count, status |-> "no_person"]
                     /\ keypoints' = kp
                     /\ now' = now + tick
                     /\ direction' = "none"
                     /\ rep_check' = NoCheck
                     /\ UNCHANGED <<mode, script, fed, usable_frames, test_script>>

\* The reset_session handler: a new PullUpCounter() replaces whatever the
\* default session held.
reset_session ==
    /\ mode = "server"
    /\ resets < MaxResets
    /\ resets' = resets + 1
    /\ workout_sessions' = WithSession(DEFAULT_SESSION_ID, instances + 1)
    /\ instances' = instances + 1
    /\ counter_class' = "PullUpCounter"
    /\ SetSelf(NewCounter)
    /\ usable_frames' = 0
    /\ op' = "reset_session"
    /\ prev_op' = op
    /\ keypoints' = FrameNone
    /\ ret' = NoReturn
    /\ direction' = "none"
    /\ rep_check' = NoCheck
    /\ UNCHANGED <<now, mode, script, fed, test_script, requests>>

\* what detect_pose can return: no person, or the 17 keypoints of one
ServerFrames ==
    {FrameNone, FullFrame(0, HighConf, HighConf, LowConf, HighConf)}
    \cup {FullFrame(sig, HighConf, HighConf, min_confidence, HighConf) :
             sig \in {0, 40}}

NextServer ==
    \/ \E r \in 1..MaxRequests, e \in Exercises : receive(r, e)
    \/ \E r \in 1..MaxRequests, kp \in ServerFrames, tick \in Ticks, lag \in ReadLag :
           analyze_frame(r, kp, tick, lag)
    \/ reset_session

\* the server after start-up: no session, no request
InitServer ==
    /\ InitCounter
    /\ mode = "server"
    /\ script = <<>>
    /\ test_script = FALSE
    /\ InitClass

SpecServer == InitServer /\ [][NextServer]_vars

\* ------------------------------------------------------------------------
\* Properties
\* ------------------------------------------------------------------------
ReasonCodes == {STATUS_NO_PERSON, STATUS_INVALID_KEYPOINTS, STATUS_LOW_CONFIDENCE}

\* the smallest confidence among the four joints of a frame
FrameMinConf(f) ==
    Min(Min(f.left_shoulder.c, f.right_shoulder.c), Min(f.left_wrist.c, f.right_wrist.c))

\* the call just made appended a sample to Position History
SampleAppended == op' = "analyze_pose" /\ fed' = fed + 1

\* the two examined entries are the pattern the rep check requires, and
\* their range
ExaminedPattern(rc) ==
    Len(rc) = 2 /\ RepPattern(rc[1].direction, rc[2].direction)

ExaminedRange(rc) == Abs(rc[2].position - rc[1].position)

\* C1: count never decreases over analyze calls, whatever the frame and
\* the clock; only reset lowers it, and reset sets it to 0.
C1_CountMonotone ==
    [][/\ op' = "analyze_pose" => count' >= count
       /\ count' < count => op' = "reset"
       /\ op' = "reset" => count' = 0]_vars

\* a failing frame analyzed after a repetition was counted
C1_Witness == op = "analyze_pose" /\ ret.status = STATUS_ERROR /\ count >= 1

\* C2: at the end of the end-to-end pull-up scenario (0 down to -100 and
\* back to 0, all frames analyzed by one counter, the cooldown elapsed) the
\* count is 1 and Direction History is empty.
C2_ScenarioCountsOne ==
    (/\ mode = "script"
     /\ script = PullUpScenario
     /\ Len(position_history) = Len(PullUpScenario)
     /\ op = "analyze_pose"
     /\ rep_check.current_time > rep_cooldown)
    => (count = 1 /\ direction_history = <<>>)

\* C3: a repetition is counted only when the two latest Direction History
\* entries are DOWN then UP.
C3_CountsOnlyDownThenUp ==
    rep_check.outcome = "counted"
    => /\ rep_check.recent_changes[1].direction = DIRECTION_DOWN
       /\ rep_check.recent_changes[2].direction = DIRECTION_UP

\* C4: no increment of count happens while the time since the last counted
\* repetition is at most rep_cooldown; once it is more, a required pattern
\* of sufficient range is counted.
C4_Cooldown ==
    [][/\ count' > count =>
            rep_check'.current_time - last_rep_time > rep_cooldown
       /\ (/\ SampleAppended
           /\ rep_check'.current_time - last_rep_time > rep_cooldown
           /\ ExaminedPattern(rep_check'.recent_changes)
           /\ ExaminedRange(rep_check'.recent_changes) > min_movement_range)
          => count' = count + 1]_vars

\* after one counted repetition, a second complete pattern of sufficient
\* range is refused exactly rep_cooldown seconds after the first
C4_Witness ==
    /\ count = 1
    /\ rep_check.outcome = "cooldown"
    /\ rep_check.current_time - last_rep_time = rep_cooldown
    /\ ExaminedPattern(LastN(direction_history, 2))
    /\ ExaminedRange(LastN(direction_history, 2)) > min_movement_range

\* C5: once the cooldown has elapsed and the two latest entries are the
\* required pattern, the repetition is counted exactly when the recorded
\* signal values differ by more than min_movement_range.
C5_RangeGate ==
    [][(/\ SampleAppended
        /\ ExaminedPattern(rep_check'.recent_changes))
       => (count' = count + 1
           <=> ExaminedRange(rep_check'.recent_changes) > min_movement_range)]_vars

\* a pattern whose range is exactly min_movement_range was examined and
\* not counted
C5_Witness ==
    /\ ExaminedPattern(rep_check.recent_changes)
    /\ ExaminedRange(rep_check.recent_changes) = min_movement_range
    /\ rep_check.outcome = "small_range"

\* C6: counting a repetition empties Direction History; every increment
\* examined two entries, none of them older than the previous repetition.
C6_CountedOnce ==
    [][count' > count =>
        /\ direction_history' = <<>>
        /\ Len(rep_check'.recent_changes) = 2
        /\ \A i \in 1..2 : rep_check'.recent_changes[i].timestamp >= last_rep_time]_vars

\* a second repetition has just been counted
C6_Witness == count = 2 /\ rep_check.outcome = "counted"

\* the frame is absent, malformed or of low confidence
C7_Unusable(f) ==
    \/ ~f.present
    \/ f.n < NUM_KEYPOINTS
    \/ f.width < KEYPOINT_WIDTH
    \/ FrameMinConf(f) < min_confidence

\* C7: an unusable frame leaves every field of the counter as it was and
\* returns the current count with a reason code; an absent frame on a
\* fresh counter returns (0, no_person).
C7_UnusableSkipped ==
    [][(op' = "analyze_pose" /\ C7_Unusable(keypoints')) =>
        /\ UNCHANGED counter_vars
        /\ ret'.count = count
        /\ ret'.status \in ReasonCodes
        /\ (op = "init" /\ ~keypoints'.present)
               => ret' = [count |-> 0, status |-> STATUS_NO_PERSON]]_vars

\* an unusable frame was analyzed in the middle of a motion
C7_Witness ==
    /\ op = "analyze_pose"
    /\ C7_Unusable(keypoints)
    /\ direction_history # <<>>
    /\ consecutive_up_frames > 0
    /\ count >= 1

\* the rows of the frame are well formed: x, y, confidence, all numbers
WellFormed(f) == f.width = KEYPOINT_WIDTH /\ f.numeric

\* C8 as stated: absent gives no_person, every length from 0 to 16 gives
\* invalid_keypoints, 17 points below the confidence threshold give
\* low_confidence, any other frame is usable.
C8_ReasonCodesAsStated ==
    (op = "analyze_pose" /\ (keypoints.present => WellFormed(keypoints))) =>
        IF ~keypoints.present THEN ret.status = STATUS_NO_PERSON
        ELSE IF keypoints.n < NUM_KEYPOINTS THEN ret.status = STATUS_INVALID_KEYPOINTS
        ELSE IF FrameMinConf(keypoints) < min_confidence
        THEN ret.status = STATUS_LOW_CONFIDENCE
        ELSE ret.status \notin ReasonCodes \cup {STATUS_ERROR}

\* C8 amended: an absent frame and a frame of length 0 give no_person,
\* lengths 1 to 16 give invalid_keypoints, 17 points below the confidence
\* threshold give low_confidence, any other frame is usable.
C8_ReasonCodes ==
    (op = "analyze_pose" /\ (keypoints.present => WellFormed(keypoints))) =>
        IF ~keypoints.present \/ keypoints.n = 0 THEN ret.status = STATUS_NO_PERSON
        ELSE IF keypoints.n < NUM_KEYPOINTS THEN ret.status = STATUS_INVALID_KEYPOINTS
        ELSE IF FrameMinConf(keypoints) < min_confidence
        THEN ret.status = STATUS_LOW_CONFIDENCE
        ELSE ret.status \notin ReasonCodes \cup {STATUS_ERROR}

\* a frame of length 0 was answered with no_person
C8_Witness ==
    /\ op = "analyze_pose"
    /\ keypoints.present
    /\ keypoints.n = 0
    /\ ret.status = STATUS_NO_PERSON

\* C9 as stated: a usable frame that leaves fewer than 5 samples in
\* Position History returns the status starting with the unchanged count.
C9_StartingStatusAsStated ==
    [][(SampleAppended /\ Len(position_history') < LOOKBACK_FRAMES)
       => ret' = [count |-> count, status |-> DIRECTION_STARTING]]_vars

\* C9 amended: such a frame makes detect_direction_change return STARTING,
\* and analyze returns the status stable with the unchanged count.
C9_WarmUpStatus ==
    [][(SampleAppended /\ Len(position_history') < LOOKBACK_FRAMES)
       => /\ direction' = DIRECTION_STARTING
          /\ ret' = [count |-> count, status |-> STATUS_STABLE]]_vars

\* the fourth usable frame of a counter was analyzed
C9_Witness ==
    /\ op = "analyze_pose"
    /\ Len(position_history) = LOOKBACK_FRAMES - 1
    /\ direction = DIRECTION_STARTING

\* every lookback-window movement of the samples held is inside the band
Calm(ph) ==
    \A i \in LOOKBACK_FRAMES..Len(ph) :
        Abs(ph[i] - ph[i - (LOOKBACK_FRAMES - 1)]) <= movement_threshold

\* C10: while every lookback-window movement since construction or reset
\* is within the band, from the fifth sample on the confirmed direction is
\* STABLE, Direction History is empty, count is 0 and analyze answers a
\* usable frame with the status stable.
C10_NoiseIsStable ==
    (/\ Len(position_history) >= LOOKBACK_FRAMES
     /\ Len(position_history) < POSITION_HISTORY_SIZE
     /\ Calm(position_history))
    => /\ current_direction = DIRECTION_STABLE
       /\ direction_history = <<>>
       /\ count = 0
       /\ status = STATUS_STABLE
       /\ (op = "analyze_pose" /\ ret.status \notin ReasonCodes \cup {STATUS_ERROR})
              => (ret = [count |-> 0, status |-> STATUS_STABLE]
                  /\ direction = DIRECTION_STABLE)

\* seven calm samples, three of them at the very edge of the band
C10_Witness ==
    /\ op = "analyze_pose"
    /\ Len(position_history) >= LOOKBACK_FRAMES + 2
    /\ Calm(position_history)
    /\ \A i \in LOOKBACK_FRAMES..(LOOKBACK_FRAMES + 2) :
           position_history[i] - position_history[i - (LOOKBACK_FRAMES - 1)]
               = movement_threshold

\* the signal of a usable frame, as analyze_pose computes it
SignalOf(f) ==
    calculate_wrist_shoulder_diff(f.left_shoulder, f.right_shoulder,
                                  f.left_wrist, f.right_wrist)

\* q after one more element x entered a FIFO of capacity n
Fifo(q, x, n) == (IF Len(q) = n THEN Tail(q) ELSE q) \o <<x>>

\* C11: Position History holds min(30, usable frames analyzed since
\* construction or the last reset) samples and Direction History at most 10
\* entries; a sample or an entry that arrives at a full history evicts the
\* oldest one and goes to the end.
C11_HistoryBounds ==
    [][/\ Len(position_history') = Min(POSITION_HISTORY_SIZE, usable_frames')
       /\ Len(direction_history') <= DIRECTION_HISTORY_SIZE
       /\ SampleAppended =>
              position_history' = Fifo(position_history, SignalOf(keypoints'),
                                       POSITION_HISTORY_SIZE)
       /\ (SampleAppended /\ current_direction' # current_direction /\ count' = count)
              => /\ direction_history' # <<>>
                 /\ direction_history' =
                        Fifo(direction_history,
                             direction_history'[Len(direction_history')],
                             DIRECTION_HISTORY_SIZE)
                 /\ direction_history'[Len(direction_history')].direction
                        = current_direction'
                 /\ direction_history'[Len(direction_history')].position
                        = SignalOf(keypoints')]_vars

\* the whole long oscillation was analyzed without a reset: both histories
\* are full and each has evicted an entry
C11_Witness ==
    /\ Len(position_history) = POSITION_HISTORY_SIZE
    /\ Len(direction_history) = DIRECTION_HISTORY_SIZE
    /\ usable_frames = Len(LongRun)

\* the movement over the lookback window ending at the newest sample
WindowMovement(ph) == ph[Len(ph)] - ph[Len(ph) - (LOOKBACK_FRAMES - 1)]

\* how the newest sample is classified (there are at least 5 samples)
ClassifiedUp(ph) ==
    Len(ph) >= LOOKBACK_FRAMES /\ WindowMovement(ph) > movement_threshold

ClassifiedDown(ph) ==
    Len(ph) >= LOOKBACK_FRAMES /\ WindowMovement(ph) < -movement_threshold

ClassifiedStable(ph) ==
    Len(ph) >= LOOKBACK_FRAMES /\ Abs(WindowMovement(ph)) <= movement_threshold

RECURSIVE UpFramesToConfirm(_)
UpFramesToConfirm(self) ==
    IF _get_confirmed_direction(self) = DIRECTION_UP THEN 0
    ELSE 1 + UpFramesToConfirm(_update_consecutive_frame_counters(self, DIRECTION_UP))

RECURSIVE DownFramesToConfirm(_)
DownFramesToConfirm(self) ==
    IF _get_confirmed_direction(self) = DIRECTION_DOWN THEN 0
    ELSE 1 + DownFramesToConfirm(_update_consecutive_frame_counters(self, DIRECTION_DOWN))

\* a frame classified STABLE lowers each positive counter by the decay rate,
\* floored at 0, and leaves a counter of 0 alone
DecayedByRate ==
    /\ consecutive_up_frames' =
           (IF consecutive_up_frames > STABLE_DECAY_RATE
            THEN consecutive_up_frames - STABLE_DECAY_RATE ELSE 0)
    /\ consecutive_down_frames' =
           (IF consecutive_down_frames > STABLE_DECAY_RATE
            THEN consecutive_down_frames - STABLE_DECAY_RATE ELSE 0)

\* C13 as stated: a STABLE frame decays the counters by 0.5, and one STABLE
\* frame right after a frame of an UP (DOWN) run leaves UP (DOWN) confirmable
\* in fewer frames than from a counter of 0.
C13_DecayAsStated ==
    [][(SampleAppended /\ ClassifiedStable(position_history')) =>
        /\ DecayedByRate
        /\ ClassifiedUp(position_history)
               => UpFramesToConfirm(Self') < UpFramesToConfirm(NewCounter)
        /\ ClassifiedDown(position_history)
               => DownFramesToConfirm(Self') < DownFramesToConfirm(NewCounter)]_vars

\* C13 amended: fewer frames when the counter was above 1 before the STABLE
\* frame, and as many as from 0 when it was 1 or less.
C13_Decay ==
    [][(SampleAppended /\ ClassifiedStable(position_history')) =>
        /\ DecayedByRate
        /\ ClassifiedUp(position_history)
               => IF consecutive_up_frames > ONE_FRAME
                  THEN UpFramesToConfirm(Self') < UpFramesToConfirm(NewCounter)
                  ELSE UpFramesToConfirm(Self') = UpFramesToConfirm(NewCounter)
        /\ ClassifiedDown(position_history)
               => IF consecutive_down_frames > ONE_FRAME
                  THEN DownFramesToConfirm(Self') < DownFramesToConfirm(NewCounter)
                  ELSE DownFramesToConfirm(Self') = DownFramesToConfirm(NewCounter)]_vars

\* two UP frames, one STABLE frame, and the second UP frame after it has
\* just confirmed UP
C13_Witness ==
    /\ op = "analyze_pose"
    /\ script = StutterAfterTwo
    /\ usable_frames = Len(StutterAfterTwo)
    /\ direction = DIRECTION_UP
    /\ consecutive_up_frames =
           2 * ONE_FRAME - STABLE_DECAY_RATE + 2 * ONE_FRAME
    /\ Len(direction_history) = 1
    /\ direction_history[1].position = position_history[Len(position_history)]

MotionStatuses == {STATUS_PULLING_UP, STATUS_LOWERING_DOWN, STATUS_STABLE}

\* the frame passes the three validity gates but its coordinates are not
\* numbers, so that computing the signal raises inside analyze_pose
C14_Failing(f) == ~C7_Unusable(f) /\ ~f.numeric

\* C14: an error raised inside analyze_pose is answered with (count, error),
\* count being the count before the call; the counter is left as it was,
\* and the call that follows is answered on its own merits: a usable frame
\* is appended and gets a motion status.
C14_ErrorCaught ==
    [][/\ (op' = "analyze_pose" /\ C14_Failing(keypoints'))
           => /\ ret' = [count |-> count, status |-> STATUS_ERROR]
              /\ UNCHANGED counter_vars
       /\ (op' = "analyze_pose" /\ ret'.status = STATUS_ERROR)
           => (C14_Failing(keypoints') /\ count' = count)
       /\ (/\ op = "analyze_pose"
           /\ ret.status = STATUS_ERROR
           /\ op' = "analyze_pose"
           /\ ~C7_Unusable(keypoints')
           /\ keypoints'.numeric)
           => /\ position_history' =
                     Fifo(position_history, SignalOf(keypoints'),
                          POSITION_HISTORY_SIZE)
              /\ ret'.status \in MotionStatuses
              /\ ret'.count = count']_vars

\* an error was answered in the middle of a downward motion, after at
\* least one direction change was recorded
C14_Witness ==
    /\ op = "analyze_pose"
    /\ C14_Failing(keypoints)
    /\ ret = [count |-> count, status |-> STATUS_ERROR]
    /\ direction_history # <<>>
    /\ consecutive_down_frames > 0

\* C15: reset leaves the counter exactly as its constructor does: count 0,
\* status neutral, both histories empty, direction STABLE, both
\* consecutive-frame counters 0, last_rep_time 0 and frame counter 0.
C15_ResetIsConstruction ==
    [][op' = "reset" =>
        /\ Self' = NewCounter
        /\ count' = 0
        /\ status' = STATUS_NEUTRAL
        /\ position_history' = <<>>
        /\ direction_history' = <<>>
        /\ current_direction' = DIRECTION_STABLE
        /\ consecutive_up_frames' = 0
        /\ consecutive_down_frames' = 0
        /\ last_rep_time' = 0
        /\ frame_count' = 0]_vars

\* the counter was reset after the whole two-cycle run had been analyzed
C15_Witness ==
    /\ op = "reset"
    /\ prev_op = "analyze_pose"
    /\ script = TwoCycles
    /\ fed = Len(TwoCycles)
    /\ now = MaxTime
    /\ Self = NewCounter

\* C16: a reset called right after a reset changes nothing.
C16_ResetIdempotent ==
    [][(op = "reset" /\ op' = "reset") => UNCHANGED counter_vars]_vars

\* reset was called twice in a row
C16_Witness ==
    /\ op = "reset"
    /\ prev_op = "reset"
    /\ fed > 0

\* the label under which a confirmed direction is shown
LabelOf(d) ==
    CASE d = DIRECTION_UP -> STATUS_PULLING_UP
      [] d = DIRECTION_DOWN -> STATUS_LOWERING_DOWN
      [] d = DIRECTION_STABLE -> STATUS_STABLE
      [] OTHER -> "none"

\* C18: a usable frame that leaves at least 5 samples is answered with the
\* label of the direction confirmed on that frame (pulling_up for UP,
\* lowering_down for DOWN, stable for STABLE) and with the count as the
\* repetition check of that frame left it.
C18_StatusOfFrame ==
    [][(SampleAppended /\ Len(position_history') >= LOOKBACK_FRAMES) =>
        /\ direction' \in {DIRECTION_UP, DIRECTION_DOWN, DIRECTION_STABLE}
        /\ direction' = current_direction'
        /\ ret'.status = LabelOf(direction')
        /\ ret'.count = count'
        /\ rep_check'.outcome = "counted" => ret'.count = count + 1]_vars

\* the frame that confirmed DOWN also completed a repetition: it is
\* answered with the new count and lowering_down
C18_Witness ==
    /\ op = "analyze_pose"
    /\ rep_check.outcome = "counted"
    /\ direction = DIRECTION_DOWN
    /\ ret = [count |-> 1, status |-> STATUS_LOWERING_DOWN]

\* the entry that supplies the UP of a squat match and the one that
\* supplies the DOWN, among the examined entries rc
MatchedUp(rc) ==
    IF rc[Len(rc) - 1].direction = DIRECTION_UP THEN rc[Len(rc) - 1] ELSE rc[1]

MatchedDown(rc) == rc[Len(rc)]

\* the examined entries are UP, DOWN or UP, STABLE, DOWN
SquatMatch(rc) ==
    /\ Len(rc) >= 2
    /\ rc[Len(rc)].direction = DIRECTION_DOWN
    /\ \/ rc[Len(rc) - 1].direction = DIRECTION_UP
       \/ /\ Len(rc) = 3
          /\ rc[2].direction = DIRECTION_STABLE
          /\ rc[1].direction = DIRECTION_UP

C19_OneCounterPerSession ==
    (/\ mode = "server"
     /\ resets = 0
     /\ \E r \in 1..MaxRequests : requests[r].pc = "done")
    => /\ instances = 1
       /\ DEFAULT_SESSION_ID \in DOMAIN workout_sessions
       /\ \A r \in 1..MaxRequests :
              requests[r].pc = "done"
                  => /\ requests[r].http = 200
                     /\ requests[r].instance = workout_sessions[DEFAULT_SESSION_ID]

\* C21: the frame on which a repetition is accepted increases count by
\* exactly 1, sets last_rep_time to the clock reading of the acceptance and
\* empties Direction History; Position History, the current direction and
\* both consecutive-frame counters are as the direction update of that
\* frame set them.
C21_AcceptanceEffect ==
    [][(SampleAppended /\ rep_check'.outcome = "counted") =>
        \E d \in {detect_direction_change(Self, SignalOf(keypoints'),
                                          rep_check'.current_time)} :
            /\ count' = count + 1
            /\ last_rep_time' = now'
            /\ direction_history' = <<>>
            /\ d.self.direction_history # <<>>
            /\ position_history' = d.self.position_history
            /\ current_direction' = d.self.current_direction
            /\ current_direction' = direction'
            /\ consecutive_up_frames' = d.self.consecutive_up_frames
            /\ consecutive_down_frames' = d.self.consecutive_down_frames
            /\ frame_count' = frame_count]_vars

\* a repetition was accepted on a frame that confirmed a new direction, the
\* clock having advanced between the reading of the cooldown test and the acceptance
C21_Witness ==
    /\ op = "analyze_pose"
    /\ rep_check.outcome = "counted"
    /\ count = 1
    /\ now > rep_check.current_time
    /\ last_rep_time = now
    /\ direction_history = <<>>
    /\ current_direction = DIRECTION_DOWN
    /\ consecutive_down_frames = min_consecutive_frames * ONE_FRAME
    /\ Len(position_history) > LOOKBACK_FRAMES

\* the entry a frame appends when it changes the direction
EntryOfFrame ==
    [direction |-> direction', timestamp |-> rep_check'.current_time,
     position |-> SignalOf(keypoints')]

\* Direction History as the direction update of the frame left it, before
\* the repetition check: the check empties it when it counts, and then the
\* entries it examined are the latest two of that history
HistoryBeforeCheck(expected) ==
    IF rep_check'.outcome = "counted"
    THEN /\ direction_history' = <<>>
         /\ rep_check'.recent_changes = LastN(expected, 2)
    ELSE direction_history' = expected

\* C22: a usable frame appends the entry (direction, time, signal) to
\* Direction History exactly when its confirmed direction differs from the
\* current direction, and the current direction becomes that direction;
\* otherwise nothing is appended and the current direction stays.
C22_AppendOnChange ==
    [][SampleAppended =>
        IF direction' # DIRECTION_STARTING /\ direction' # current_direction
        THEN /\ HistoryBeforeCheck(Fifo(direction_history, EntryOfFrame,
                                        DIRECTION_HISTORY_SIZE))
             /\ current_direction' = direction'
        ELSE /\ HistoryBeforeCheck(direction_history)
             /\ current_direction' = current_direction]_vars

\* a frame confirmed DOWN after UP and appended its entry, which the
\* repetition check examined and refused for its range
C22_Witness ==
    /\ op = "analyze_pose"
    /\ direction = DIRECTION_DOWN
    /\ current_direction = DIRECTION_DOWN
    /\ rep_check.outcome = "small_range"
    /\ now > rep_cooldown
    /\ Len(direction_history) >= 2
    /\ direction_history[Len(direction_history)] =
           [direction |-> DIRECTION_DOWN, timestamp |-> now,
            position |-> position_history[Len(position_history)]]
    /\ direction_history[Len(direction_history) - 1].direction = DIRECTION_UP

\* C23: a frame classified UP adds one frame to the up-counter and zeroes
\* the down-counter, a frame classified DOWN does the opposite, and after
\* every step at most one of the two counters is greater than 0.
C23_OneCounterPositive ==
    [][/\ ~(consecutive_up_frames' > 0 /\ consecutive_down_frames' > 0)
       /\ (SampleAppended /\ ClassifiedUp(position_history'))
              => /\ consecutive_down_frames' = 0
                 /\ consecutive_up_frames' = consecutive_up_frames + ONE_FRAME
       /\ (SampleAppended /\ ClassifiedDown(position_history'))
              => /\ consecutive_up_frames' = 0
                 /\ consecutive_down_frames' = consecutive_down_frames + ONE_FRAME]_vars

\* the first frame classified DOWN after a confirmed UP: the up-counter,
\* which was positive, is 0 and the direction is still UP
C23_Witness ==
    /\ op = "analyze_pose"
    /\ ClassifiedDown(position_history)
    /\ current_direction = DIRECTION_UP
    /\ consecutive_down_frames = ONE_FRAME
    /\ consecutive_up_frames = 0

\* C24: from the fifth sample on, the confirmed direction of a frame is UP
\* if the up-counter (as the frame left it) is at least
\* min_consecutive_frames, otherwise DOWN if the down-counter is, otherwise
\* STABLE if both counters are exactly 0, otherwise the direction confirmed
\* before; a confirmed UP or DOWN becomes STABLE only on a frame that
\* leaves both counters at 0.
C24_ConfirmedDirection ==
    [][(SampleAppended /\ Len(position_history') >= LOOKBACK_FRAMES) =>
        /\ direction' =
             (IF consecutive_up_frames' >= min_consecutive_frames * ONE_FRAME
              THEN DIRECTION_UP
              ELSE IF consecutive_down_frames' >= min_consecutive_frames * ONE_FRAME
              THEN DIRECTION_DOWN
              ELSE IF consecutive_up_frames' = 0 /\ consecutive_down_frames' = 0
              THEN DIRECTION_STABLE
              ELSE current_direction)
        /\ (/\ current_direction \in {DIRECTION_UP, DIRECTION_DOWN}
            /\ direction' = DIRECTION_STABLE)
               => (consecutive_up_frames' = 0 /\ consecutive_down_frames' = 0)]_vars

\* the held level has just brought a confirmed UP back to STABLE, on the
\* frame that took the up-counter to 0
C24_Witness ==
    /\ op = "analyze_pose"
    /\ script = RiseAndHold
    /\ usable_frames = Len(RiseAndHold)
    /\ direction = DIRECTION_STABLE
    /\ consecutive_up_frames = 0
    /\ consecutive_down_frames = 0
    /\ Len(direction_history) = 2
    /\ direction_history[1].direction = DIRECTION_UP
    /\ direction_history[2].direction = DIRECTION_STABLE
    /\ direction_history[2].timestamp = now

\* what a frame whose movement is classified with a band of plus or minus
\* movement_threshold, edges included, does to the two consecutive-frame
\* counters
CountersClassify(movement) ==
    /\ movement > movement_threshold
           => /\ consecutive_up_frames' = consecutive_up_frames + ONE_FRAME
              /\ consecutive_down_frames' = 0
    /\ movement < -movement_threshold
           => /\ consecutive_down_frames' = consecutive_down_frames + ONE_FRAME
              /\ consecutive_up_frames' = 0
    /\ (-movement_threshold <= movement /\ movement <= movement_threshold)
           => DecayedByRate

\* C25: a movement strictly above movement_threshold is classified UP, one
\* strictly below minus movement_threshold DOWN, and every movement from
\* minus movement_threshold to movement_threshold, both edges included,
\* STABLE; the classification shows in what the frame does to the two
\* consecutive-frame counters.
C25_HysteresisBand ==
    [][(SampleAppended /\ Len(position_history') >= LOOKBACK_FRAMES) =>
        CountersClassify(WindowMovement(position_history'))]_vars

\* a movement of exactly minus movement_threshold right after a frame
\* classified UP: the up-counter has decayed and the down-counter is 0
C25_Witness ==
    /\ op = "analyze_pose"
    /\ Len(position_history) > LOOKBACK_FRAMES
    /\ WindowMovement(position_history) = -movement_threshold
    /\ consecutive_up_frames = ONE_FRAME - STABLE_DECAY_RATE
    /\ consecutive_down_frames = 0

\* C26: with more than 5 samples in Position History, the movement a frame
\* is classified by is the newest sample minus the sample appended five
\* usable frames before it.
C26_MovementFiveFramesBack ==
    [][(SampleAppended /\ Len(position_history') > LOOKBACK_FRAMES) =>
        CountersClassify(position_history'[Len(position_history')]
                         - position_history'[Len(position_history')
                                             - LOOKBACK_FRAMES])]_vars

\* the squat signal of a frame as the absolute difference between the
\* average hip height and the average knee height
HipKneeDistance(f) ==
    Abs((f.left_hip.y + f.right_hip.y) \div 2
        - (f.left_knee.y + f.right_knee.y) \div 2)

\* C27: the sample a usable squat frame appends is the absolute difference
\* between its average hip height and its average knee height (both knees
\* counted), and is never negative.
C27_SquatSignal ==
    (op = "squat_frame" /\ ret.status \notin ReasonCodes)
    => /\ position_history[Len(position_history)] = HipKneeDistance(keypoints)
       /\ position_history[Len(position_history)] >= 0

\* the smallest confidence among the four joints of a squat frame
SquatFrameMinConf(f) ==
    Min(Min(f.left_hip.c, f.right_hip.c), Min(f.left_knee.c, f.right_knee.c))

\* the frame has 17 rows of three columns
FullShape(f) == f.present /\ f.n = NUM_KEYPOINTS /\ f.width = KEYPOINT_WIDTH

C29_CounterOfRequestedExercise ==
    \A r \in 1..MaxRequests :
        (requests[r].pc = "done" /\ ClassOf(requests[r].exercise) # "none")
            => /\ requests[r].http = 200
               /\ requests[r].counter_class = ClassOf(requests[r].exercise)

\* a frame sent for squats after a reset was analyzed by a pull-up counter
C29_AfterReset ==
    \E r \in 1..MaxRequests :
        /\ requests[r].pc = "done"
        /\ requests[r].exercise = "Squats"
        /\ requests[r].http = 200
        /\ requests[r].counter_class = "PullUpCounter"
        /\ resets = 1

\* request r has just been served
Served(r) == requests[r].pc = "reading" /\ requests'[r].pc = "done"

\* C30: a frame is served in one step, together with no other frame and no
\* reset: when the registry holds a counter at that moment the frame is
\* analyzed by that counter, the latest one constructed, whose frame
\* counter rises by exactly 1; no frame is analyzed by a counter that a
\* reset has replaced.
C30_FramesSequential ==
    [][\A r \in 1..MaxRequests :
        Served(r) =>
          /\ \A q \in 1..MaxRequests : q # r => requests'[q] = requests[q]
          /\ resets' = resets
          /\ DEFAULT_SESSION_ID \in DOMAIN workout_sessions =>
                 /\ requests'[r].http = 200
                 /\ requests'[r].instance = workout_sessions[DEFAULT_SESSION_ID]
                 /\ UNCHANGED <<workout_sessions, instances>>
                 /\ frame_count' = frame_count + 1
          /\ requests'[r].http = 200 =>
                 /\ requests'[r].instance = instances'
                 /\ requests'[r].instance = workout_sessions'[DEFAULT_SESSION_ID]]_vars

\* a frame that arrived while the registry held one counter was served
\* after a reset had replaced it, by the new counter; another frame had
\* been analyzed by the old one
C30_Witness ==
    \E r \in 1..MaxRequests, q \in 1..MaxRequests :
        /\ op = "analyze_frame"
        /\ requests[r].pc = "done"
        /\ requests[r].http = 200
        /\ requests[r].seen > 0
        /\ requests[r].instance > requests[r].seen
        /\ requests[r].instance = workout_sessions[DEFAULT_SESSION_ID]
        /\ requests[q].pc = "done"
        /\ requests[q].instance = requests[r].seen
        /\ frame_count = 1

\* C31: no two adjacent entries of Direction History carry the same
\* direction, and the last entry of a non-empty Direction History carries
\* the current confirmed direction.
C31_HistoryAlternates ==
    /\ \A i \in 1..(Len(direction_history) - 1) :
           direction_history[i].direction # direction_history[i + 1].direction
    /\ direction_history # <<>> =>
           direction_history[Len(direction_history)].direction = current_direction

\* after a counted repetition emptied the history, two further direction
\* changes were recorded
C31_Witness ==
    /\ op = "analyze_pose"
    /\ count = 1
    /\ Len(direction_history) = 2
    /\ direction_history[1].timestamp >= last_rep_time
    /\ direction_history[2].direction = current_direction
    /\ direction = current_direction

\* the latest two entries of Direction History are the pattern the
\* repetition check requires, with sufficient range
PatternPending ==
    /\ ExaminedPattern(LastN(direction_history, 2))
    /\ ExaminedRange(LastN(direction_history, 2)) > min_movement_range

\* C32: the repetition check runs on every usable frame; while a pattern of
\* sufficient range is pending, a usable frame that records no direction
\* change leaves it pending as long as the cooldown is active and counts it
\* as soon as the cooldown has elapsed.
C32_DeferredCounting ==
    [][SampleAppended =>
        /\ rep_check'.outcome # "not_run"
        /\ (PatternPending /\ current_direction' = current_direction) =>
               IF rep_check'.current_time - last_rep_time > rep_cooldown
               THEN /\ rep_check'.outcome = "counted"
                    /\ count' = count + 1
                    /\ rep_check'.recent_changes = LastN(direction_history, 2)
               ELSE /\ rep_check'.outcome = "cooldown"
                    /\ count' = count
                    /\ direction_history' = direction_history]_vars

\* a second repetition was counted on a frame that recorded no direction
\* change: the entry completing its pattern is older than the frame
C32_Witness ==
    /\ op = "analyze_pose"
    /\ rep_check.outcome = "counted"
    /\ count = 2
    /\ rep_check.recent_changes[2].timestamp < rep_check.current_time
    /\ rep_check.recent_changes[2].timestamp - rep_check.recent_changes[1].timestamp
           <= rep_cooldown

\* the frame records a direction change whose entry completes, with the
\* last entry held, a pattern of sufficient range
CompletesPattern ==
    /\ SampleAppended
    /\ direction' # DIRECTION_STARTING
    /\ direction' # current_direction
    /\ direction_history # <<>>
    /\ RepPattern(direction_history[Len(direction_history)].direction, direction')
    /\ Abs(SignalOf(keypoints')
           - direction_history[Len(direction_history)].position) > min_movement_range

\* C33: when the cooldown has elapsed, the frame whose direction change
\* completes a pattern of sufficient range counts the repetition itself: the
\* check examines the entry just recorded, and the call returns the raised
\* count with the label of the completing direction.
C33_CountedInCompletingCall ==
    [][(CompletesPattern /\ rep_check'.current_time - last_rep_time > rep_cooldown) =>
        /\ rep_check'.outcome = "counted"
        /\ rep_check'.recent_changes[2] = EntryOfFrame
        /\ count' = count + 1
        /\ ret' = [count |-> count + 1, status |-> LabelOf(direction')]]_vars

\* the second repetition was counted by the very frame that recorded the
\* entry completing its pattern
C33_Witness ==
    /\ op = "analyze_pose"
    /\ rep_check.outcome = "counted"
    /\ rep_check.recent_changes[2] =
           [direction |-> direction, timestamp |-> rep_check.current_time,
            position |-> position_history[Len(position_history)]]
    /\ consecutive_down_frames = min_consecutive_frames * ONE_FRAME
    /\ ret = [count |-> 2, status |-> LabelOf(direction)]

\* Direction History as the direction update of the frame leaves it
UpdatedHistory ==
    IF direction' # DIRECTION_STARTING /\ direction' # current_direction
    THEN Fifo(direction_history, EntryOfFrame, DIRECTION_HISTORY_SIZE)
    ELSE direction_history

\* the latest three entries of h are two opposite directions with a STABLE
\* entry between them
StableBetween(h) ==
    /\ Len(h) >= 3
    /\ h[Len(h) - 1].direction = DIRECTION_STABLE
    /\ {h[Len(h) - 2].direction, h[Len(h)].direction}
           = {DIRECTION_UP, DIRECTION_DOWN}

\* C34: while the latest three entries are two opposite directions with a
\* STABLE entry between them, the pull-up check examines STABLE followed by
\* a direction and counts nothing, whatever the range and however long the
\* cooldown has elapsed; no counted pattern begins with a STABLE entry.
C34_StableBreaksPattern ==
    [][/\ (SampleAppended /\ StableBetween(UpdatedHistory)) =>
              /\ count' = count
              /\ rep_check'.outcome \in {"cooldown", "no_pattern"}
              /\ direction_history' = UpdatedHistory
              /\ rep_check'.outcome = "no_pattern" =>
                     /\ rep_check'.recent_changes = LastN(UpdatedHistory, 2)
                     /\ rep_check'.recent_changes[1].direction = DIRECTION_STABLE
       /\ count' > count =>
              rep_check'.recent_changes[1].direction # DIRECTION_STABLE]_vars

\* the entries UP, STABLE, DOWN with a range above min_movement_range were
\* examined after the cooldown and nothing was counted
C34_Witness ==
    /\ op = "analyze_pose"
    /\ rep_check.outcome = "no_pattern"
    /\ count = 0
    /\ Len(direction_history) = 3
    /\ direction_history[1].direction = DIRECTION_UP
    /\ direction_history[2].direction = DIRECTION_STABLE
    /\ direction_history[3].direction = DIRECTION_DOWN
    /\ Abs(direction_history[3].position - direction_history[1].position)
           > min_movement_range
    /\ rep_check.current_time - last_rep_time > rep_cooldown

\* the counter self after k further frames classified STABLE: steps 4 to 6
\* of detect_direction_change, k times
RECURSIVE AfterStableFrames(_, _)
AfterStableFrames(self, k) ==
    IF k = 0 THEN self
    ELSE LET s2 == _update_consecutive_frame_counters(self, DIRECTION_STABLE)
         IN  AfterStableFrames(
                 [s2 EXCEPT !.current_direction = _get_confirmed_direction(s2)],
                 k - 1)

\* C35: from a confirmed UP with an up-counter of n frames, n at least
\* min_consecutive_frames, and a down-counter of 0, frames classified STABLE
\* leave the confirmed direction UP for 2n - 1 frames and make it STABLE
\* on the 2n-th (the counter is kept in half frames, so 2n is its value).
C35_LagBackToStable ==
    (/\ current_direction = DIRECTION_UP
     /\ consecutive_up_frames >= min_consecutive_frames * ONE_FRAME
     /\ consecutive_down_frames = 0)
    => \A k \in 1..consecutive_up_frames :
           AfterStableFrames(Self, k).current_direction =
               (IF k < consecutive_up_frames THEN DIRECTION_UP ELSE DIRECTION_STABLE)

\* the up-counter had reached 6 frames; 11 frames classified STABLE later it
\* stands at half a frame and the confirmed direction is still UP
C35_Witness ==
    /\ op = "analyze_pose"
    /\ usable_frames = Len(RiseAndHold) - 1
    /\ position_history = SubSeq(RiseAndHold, 1, Len(RiseAndHold) - 1)
    /\ direction = DIRECTION_UP
    /\ current_direction = DIRECTION_UP
    /\ consecutive_up_frames = STABLE_DECAY_RATE
    /\ Len(direction_history) = 1

\* C36: a usable frame after which Position History holds fewer than 5
\* samples only appends its sample: both consecutive-frame counters, the
\* confirmed direction, Direction History, last_rep_time and count are as
\* before the call, and direction detection answers "starting".
C36_WarmUpOnlyGrowsHistory ==
    [][(SampleAppended /\ Len(position_history') < LOOKBACK_FRAMES) =>
        /\ position_history' = Append(position_history, SignalOf(keypoints'))
        /\ direction' = DIRECTION_STARTING
        /\ UNCHANGED <<consecutive_up_frames, consecutive_down_frames,
                       current_direction, direction_history,
                       last_rep_time, count>>]_vars

\* the fourth sample after a reset, 40 px above the first: the counters
\* have not moved
C36_Witness ==
    /\ op = "analyze_pose"
    /\ direction = DIRECTION_STARTING
    /\ fed > usable_frames
    /\ Len(position_history) = LOOKBACK_FRAMES - 1
    /\ position_history[Len(position_history)] - position_history[1]
           > movement_threshold
    /\ consecutive_up_frames = 0
    /\ consecutive_down_frames = 0
    /\ current_direction = DIRECTION_STABLE
    /\ direction_history = <<>>
    /\ rep_check.outcome = "too_few"

\* C37: the stored status is always one of neutral, stable, pulling_up and
\* lowering_down, whatever the calls returned, and it is neutral exactly
\* while no usable frame has been analysed since construction or reset.
C37_StoredStatus ==
    /\ status \in {STATUS_NEUTRAL} \cup MotionStatuses
    /\ status = STATUS_NEUTRAL <=> usable_frames = 0
    /\ op = "analyze_pose" /\ ret.status \notin MotionStatuses =>
           ret.status \in ReasonCodes \cup {STATUS_ERROR}

\* a call has just answered "error" while the stored status is still the
\* pulling_up of an earlier frame
C37_Witness ==
    /\ op = "analyze_pose"
    /\ ret.status = STATUS_ERROR
    /\ usable_frames >= LOOKBACK_FRAMES
    /\ status = STATUS_PULLING_UP
    /\ current_direction = DIRECTION_UP

\* the newest sample of Position History after the call
NewestSample == position_history'[Len(position_history')]

C39_OneRepPerCall ==
    [][/\ op' = "analyze_pose" => count' \in {count, count + 1}
       /\ last_rep_time' # last_rep_time =>
              \/ op' = "analyze_pose" /\ count' = count + 1
                                      /\ rep_check'.outcome = "counted"
              \/ op' = "reset"]_vars

\* a call made after the one that counted the first repetition: the clock
\* has moved on, the repetition check answered "cooldown", count and
\* last_rep_time are those the counting call left
C39_Witness ==
    /\ op = "analyze_pose"
    /\ prev_op = "analyze_pose"
    /\ rep_check.outcome = "cooldown"
    /\ ret.count = 1
    /\ count = 1
    /\ last_rep_time > rep_cooldown
    /\ now > last_rep_time

====
